---------------------------- MODULE Spec2Model ----------------------------
(***************************************************************************)
(* Game process launch, supervision and registry of                        *)
(* packages/frontend/src-tauri/src/game_launcher.rs.                       *)
(*                                                                         *)
(* Caller threads run launch_game_client, check_game_process,              *)
(* kill_game_process and cleanup_dead_processes; every spawned child has   *)
(* two reader threads.  The three kinds of mutex (NEXT_ID, PROCESSES, the  *)
(* per-record stdout/stderr buffers) are explicit, and every step that     *)
(* blocks on one is a separate program position.                           *)
(***************************************************************************)
EXTENDS Integers, Sequences, FiniteSets, TLC

\* ------------------------------------------------------------- bounds
MaxLaunches == 2      \* launch_game_client calls of the registry scenario
IoLaunches == 1       \* launch_game_client calls of the output scenario
MaxOut == 2           \* bytes a child writes to one stream
MaxRuns == 2          \* calls of the preparation scenario

Callers == {"c1", "c2"}
Streams == {"stdout", "stderr"}
ExitCodes == {0, 1}
DirKinds == {"dir", "file", "absent"}

\* ------------------------------------------------------------- values
\* Option<T>: None is the empty sequence, Some(x) the one-element sequence.
None == <<>>
Some(x) == <<x>>

NoThread == "free"
BufFree == <<"free">>
NoKey == <<"", 0>>

\* format!("game_process_{}", current_id)
FormatId(n) == <<"game_process_", n>>

\* the identifiers a caller passes to check_game_process and kill_game_process
Keys == {FormatId(n) : n \in 1..MaxLaunches}

\* std::process::ExitStatus, and the state of a child that has not exited
Running == [kind |-> "running", code |-> 0]
Exited(n) == [kind |-> "exited", code |-> n]
Signaled == [kind |-> "signaled", code |-> 0]
ExitStatuses == {Exited(n) : n \in ExitCodes} \cup {Signaled}

\* ExitStatus::code(): the code of a normal exit, None after a signal
StatusCode(st) == IF st.kind = "exited" THEN Some(st.code) ELSE None

\* UTF-8: the first byte of a two-byte sequence, and a continuation byte
IsLead2(b) == b \in 194..223
IsContinuation(b) == b \in 128..191

\* String::from_utf8_lossy on a buffer of ASCII bytes, two-byte sequences
\* and bytes that are not valid UTF-8 where they stand (a first byte with
\* no continuation after it, a continuation with no first byte, 254, 255):
\* each of the latter becomes U+FFFD
RECURSIVE FromUtf8Lossy(_)
FromUtf8Lossy(bytes) ==
    IF bytes = <<>> THEN <<>>
    ELSE IF bytes[1] < 128
    THEN <<bytes[1]>> \o FromUtf8Lossy(Tail(bytes))
    ELSE IF IsLead2(bytes[1]) /\ Len(bytes) >= 2 /\ IsContinuation(bytes[2])
    THEN <<(bytes[1] - 192) * 64 + (bytes[2] - 128)>>
         \o FromUtf8Lossy(Tail(Tail(bytes)))
    ELSE <<65533>> \o FromUtf8Lossy(Tail(bytes))

\* The i-th byte the child writes to a stream: the streams differ; stdout
\* mixes the two bytes of U+00E9 with ASCII, stderr mixes ASCII with a byte
\* that is not valid UTF-8.
ChildByte(s, i) ==
    IF s = "stdout"
    THEN (CASE i % 3 = 1 -> 195 [] i % 3 = 2 -> 169 [] OTHER -> 65)
    ELSE (IF i % 2 = 1 THEN 254 ELSE 66)

EmptyStreams == [s \in Streams |-> <<>>]

\* ------------------------------------------------- names and file trees
\* A path or a file name is a sequence of pieces; str::to_lowercase maps
\* each piece to its lower case.
Lower(piece) ==
    CASE piece = "Natives" -> "natives"
      [] piece = "SO" -> "so"
      [] piece = "DLL" -> "dll"
      [] piece = "JAR" -> "jar"
      [] OTHER -> piece

ToLowercase(str) == [i \in 1..Len(str) |-> Lower(str[i])]

\* str::contains
Contains(str, pat) ==
    \E i \in 0..(Len(str) - Len(pat)) : SubSeq(str, i + 1, i + Len(pat)) = pat

\* cfg!(target_os = ..) of the build, and the platform string of
\* prepare_natives_local
Hosts == {"windows", "macos", "linux", "freebsd"}
Platform(host) ==
    IF host \in {"windows", "macos", "linux"} THEN host ELSE "unknown"

\* matches!(ext, "dll" | "so" | "dylib")
NativeExts == {"dll", "so", "dylib"}

\* A file of the natives tree: base name, extension and what it holds (the
\* place it first came from); readable tells whether fs::copy can read it.
File(base, ext, data) ==
    [base |-> base, ext |-> ext, data |-> data, readable |-> TRUE]
Unreadable(f) == [f EXCEPT !.readable = FALSE]

\* the name under which a file sits in a directory
FileName(f) == <<f.base, f.ext>>

\* The root of the natives directory: file name -> contents.
EmptyRoot == [n \in {} |-> ""]
RootWith(root, n, data) ==
    [x \in DOMAIN root \cup {n} |-> IF x = n THEN data ELSE root[x]]

\* An archive under libraries: the directory it is in, its file name and
\* extension, the entry at which reading it fails (0: it cannot be opened
\* or parsed; past the last entry: it is sound), and its entries in index
\* order.
Jar(dir, name, ext, failAt, entries) ==
    [dir |-> dir, name |-> name, ext |-> ext, failAt |-> failAt,
     entries |-> entries]
SoundJar(dir, name, ext, entries) ==
    Jar(dir, name, ext, Len(entries) + 1, entries)

\* jar_path.to_string_lossy(): the whole path of the archive
JarPath(j) == j.dir \o <<"/">> \o j.name \o <<".", j.ext>>

\* path.file_name() of the archive
JarFileName(j) == j.name \o <<".", j.ext>>

\* ------------------------------------------- native library preparation
\* check_natives_exist_in_root: a file of the root whose extension is one
\* of the three, as it is spelled
CheckNativesExistInRoot(root) == \E n \in DOMAIN root : n[2] \in NativeExts

\* (not the code: a finder that takes every file under libraries)
FindEveryFile(libs) == IF libs = None THEN <<>> ELSE libs[1]

\* find_natives_jars: the archives under libraries, in walk order, whose
\* extension is "jar" and whose lower-cased file name contains "natives".
\* libs is None when the directory does not exist.
IsNativesJar(j) ==
    j.ext = "jar" /\ Contains(ToLowercase(JarFileName(j)), <<"natives">>)

FindNativesJars(libs) ==
    IF libs = None THEN <<>> ELSE SelectSeq(libs[1], IsNativesJar)

\* let jar_name = jar_path.to_string_lossy().to_lowercase();
JarName(j) == ToLowercase(JarPath(j))

\* let platform_specific = jar_name.contains("natives-") && (..)
PlatformSpecific(jar_name, host) ==
    /\ Contains(jar_name, <<"natives", "-">>)
    /\ \/ Contains(jar_name, <<"natives", "-", Platform(host)>>)
       \/ (Contains(jar_name, <<"natives", "-", "windows">>) /\ host = "windows")
       \/ (Contains(jar_name, <<"natives", "-", "linux">>) /\ host = "linux")
       \/ (Contains(jar_name, <<"natives", "-", "osx">>) /\ host = "macos")
       \/ (Contains(jar_name, <<"natives", "-", "macos">>) /\ host = "macos")

\* if jar_name.contains("natives-") && !platform_specific { continue; }
SkippedAsForeign(j, host) ==
    /\ Contains(JarName(j), <<"natives", "-">>)
    /\ ~PlatformSpecific(JarName(j), host)

\* extract_natives_from_jar from entry i on: every entry whose lower-cased
\* extension is one of the three is written to the root under its base
\* name, over what is there; an entry that cannot be read ends the function
\* with an error and leaves what was written.
RECURSIVE ExtractEntries(_, _, _, _)
ExtractEntries(root, j, i, wrote) ==
    IF i > Len(j.entries) THEN [root |-> root, res |-> "Ok", wrote |-> wrote]
    ELSE IF i = j.failAt THEN [root |-> root, res |-> "Err", wrote |-> wrote]
    ELSE IF Lower(j.entries[i].ext) \in NativeExts
    THEN ExtractEntries(RootWith(root, FileName(j.entries[i]),
                                 j.entries[i].data), j, i + 1, wrote + 1)
    ELSE ExtractEntries(root, j, i + 1, wrote)

ExtractNativesFromJar(root, j) ==
    IF j.failAt = 0
    THEN [root |-> root, res |-> "Err", wrote |-> 0]
    ELSE ExtractEntries(root, j, 1, 0)

\* let platform_dirs = ["windows", "linux", "macos", "osx"];
PlatformDirs == <<"windows", "linux", "macos", "osx">>

\* (not the code: a copy that replaces a root file whose contents differ)
ToCopyIfDifferent(root, f) ==
    /\ Lower(f.ext) \in NativeExts
    /\ (FileName(f) \notin DOMAIN root \/ root[FileName(f)] # f.data)

\* (not the code: a copy that does not look whether the root has the name)
ToCopyAlways(root, f) == Lower(f.ext) \in NativeExts

\* whether consolidate_natives copies a file of a platform directory
ToCopy(root, f) == Lower(f.ext) \in NativeExts /\ FileName(f) \notin DOMAIN root

\* the loop over the entries of one platform directory, from entry i on;
\* fs::copy(..)? returns from consolidate_natives when the copy fails
RECURSIVE ConsolidateDir(_, _, _)
ConsolidateDir(acc, files, i) ==
    IF i > Len(files) THEN acc
    ELSE IF ~ToCopy(acc.root, files[i]) THEN ConsolidateDir(acc, files, i + 1)
    ELSE IF ~files[i].readable THEN [acc EXCEPT !.res = "Err"]
    ELSE ConsolidateDir(
            [acc EXCEPT !.root = RootWith(@, FileName(files[i]), files[i].data),
                        !.copied = @ + 1],
            files, i + 1)

\* the loop over platform_dirs, from directory d on; sub gives for each
\* platform directory whether it exists and its files in walk order
RECURSIVE ConsolidateFrom(_, _, _)
ConsolidateFrom(acc, sub, d) ==
    IF d > Len(PlatformDirs) \/ acc.res = "Err" THEN acc
    ELSE IF ~sub[PlatformDirs[d]].exists THEN ConsolidateFrom(acc, sub, d + 1)
    ELSE ConsolidateFrom(
            ConsolidateDir(acc, sub[PlatformDirs[d]].files, 1), sub, d + 1)

ConsolidateNatives(root, sub) ==
    ConsolidateFrom([root |-> root, copied |-> 0, res |-> "Ok"], sub, 1)

\* ------------------------------------------------------ the command line
\* A string is a sequence of pieces, an argument vector a sequence of
\* strings.
Str(piece) == <<piece>>

\* MAIN_SEPARATOR, and cp_separator
PathSep(host) == IF host = "windows" THEN "\\" ELSE "/"
CpSeparator(host) == IF host = "windows" THEN ";" ELSE ":"

\* Path::new(base).join(item): an absolute item replaces the base
IsAbsolute(path) == path # <<>> /\ path[1] \in {"/", "\\"}
PathJoin(base, item, host) ==
    IF IsAbsolute(item) THEN item ELSE base \o <<PathSep(host)>> \o item

\* [..].join(sep)
RECURSIVE JoinStrings(_, _)
JoinStrings(strs, sep) ==
    IF strs = <<>> THEN <<>>
    ELSE IF Len(strs) = 1 THEN strs[1]
    ELSE strs[1] \o <<sep>> \o JoinStrings(Tail(strs), sep)

\* (not the code: a walk that takes every file, whatever its extension)
EveryFileOf(listing, libraries_dir, host) ==
    IF listing = None THEN <<>>
    ELSE [i \in 1..Len(listing[1]) |->
            PathJoin(libraries_dir, listing[1][i].rel, host)]

\* the walk of game_dir/libraries: the path of every file whose extension
\* is "jar", in walk order; listing is None when it is not a directory
JarsOf(listing, libraries_dir, host) ==
    IF listing = None THEN <<>>
    ELSE LET jars == SelectSeq(listing[1], LAMBDA f : f.ext = "jar")
         IN  [i \in 1..Len(jars) |-> PathJoin(libraries_dir, jars[i].rel, host)]

\* for path_item in &launch_params.class_path, from item i on
RECURSIVE NewClassPath(_, _, _, _)
NewClassPath(req, listing, host, i) ==
    IF i > Len(req.class_path) THEN <<>>
    ELSE (IF req.class_path[i] = Str("libraries")
          THEN JarsOf(listing, PathJoin(req.game_dir, Str("libraries"), host),
                      host)
          ELSE <<PathJoin(req.game_dir, req.class_path[i], host)>>)
         \o NewClassPath(req, listing, host, i + 1)

\* (not the code: server arguments that do not ask whether a host is given)
ServerArgsPortAlone(req) ==
    (IF req.server_address # None
     THEN <<Str("--server"), req.server_address[1]>> ELSE <<>>)
    \o (IF req.server_port # None
        THEN <<Str("--port"), Str(ToString(req.server_port[1]))>> ELSE <<>>)

\* if let Some(address) = &launch_params.server_address { .. }
ServerArgs(req) ==
    IF req.server_address = None THEN <<>>
    ELSE <<Str("--server"), req.server_address[1]>>
         \o (IF req.server_port = None THEN <<>>
             ELSE <<Str("--port"), Str(ToString(req.server_port[1]))>>)

\* args.extend(vec![..]): the standard arguments
StandardArgs(req) ==
    <<Str("--username"), req.username,
      Str("--uuid"), req.uuid,
      Str("--accessToken"), req.access_token,
      Str("--version"), req.profile_id,
      Str("--gameDir"), req.game_dir,
      Str("--assetsDir"), req.assets_dir,
      Str("--assetIndex"), Str("1.12"),
      Str("--userType"), Str("mojang"),
      Str("--versionType"), Str("release")>>

\* every cmd.arg(..) of launch_game_client, in the order of the calls
BuildArgs(req, listing, host) ==
    <<Str("-cp"),
      JoinStrings(NewClassPath(req, listing, host, 1), CpSeparator(host)),
      <<"-Xmx">> \o req.ram \o <<"m">>,
      <<"-Xms">> \o req.ram \o <<"m">>,
      <<"-Djava.library.path=">>
          \o PathJoin(req.game_dir, Str("natives"), host)>>
    \o req.jvm_args
    \o <<req.main_class>>
    \o req.client_args
    \o StandardArgs(req)
    \o ServerArgs(req)

\* ------------------------------------------------------------- state
VARIABLES
    initialized,   \* PROCESSES (OnceLock) has been set
    nextId,        \* NEXT_ID: the value behind the mutex
    idLock,        \* NEXT_ID: the thread holding the mutex
    regLock,       \* PROCESSES: the thread holding the mutex
    processes,     \* PROCESSES: key -> GameProcess
    pc,            \* caller -> program position
    loc,           \* caller -> locals of the running command
    ret,           \* caller -> value the command returns
    quota,         \* launch_game_client calls the callers still make
    os,            \* pid -> the child as the operating system has it
    buf,           \* pid -> stream -> Arc<Mutex<Vec<u8>>> contents
    bufLock,       \* pid -> stream -> thread holding the buffer mutex
    rd,            \* pid -> stream -> reader thread (position, bytes read)
    issued,        \* identifiers generate_process_id has returned, in order
    removed,       \* key -> how often kill and cleanup removed its record
    events,        \* "game-launched" payloads emitted, in order
    nat,           \* the natives tree, the libraries and prepare_natives_local
    cmdl           \* a launch request, the libraries listing and its command line

vars == <<initialized, nextId, idLock, regLock, processes, pc, loc, ret,
          quota, os, buf, bufLock, rd, issued, removed, events>>

Pids == 1..Len(os)
Reader(p, s) == <<"reader", p, s>>

\* The locals of a command.  env, steps, seen, gone and live record what
\* the command met and did, for the properties below; the code does not
\* read them.
NoEnv == [gameDir |-> "none", natives |-> FALSE, assetsDir |-> "dir",
          mkAssets |-> FALSE, spawn |-> FALSE]

NoLoc == [op |-> "none", id |-> NoKey, cur |-> 0, child |-> 0,
          env |-> NoEnv, steps |-> <<>>, todo |-> {}, dead |-> {}, gone |-> {}, live |-> {},
          seen |-> Running, out |-> <<>>]

\* LaunchResult, ProcessStatus, bool and the String of an Err in one shape
NoRet == [tag |-> "none", msg |-> "", success |-> FALSE, process_id |-> None,
          error |-> None, running |-> FALSE, exit_code |-> None,
          stdout |-> None, stderr |-> None, value |-> FALSE]

Err(m) == [NoRet EXCEPT !.tag = "Err", !.msg = m]

\* ------------------------------------------------------------- variants
\* What the code does not do: each definition below differs from the one of
\* the program in the way its comment says, and the properties at the end
\* tell the two apart.
\* a NEXT_ID mutex that excludes nobody
CounterLockOpen == TRUE

\* a counter that advances by two
NextIdSkipped(id) == id + 2

\* a counter that is read and never advanced
NextIdKept(id) == id

\* the registry if the record were looked up and left in place
KillLookedUp(id) == processes

\* a kill that keeps the record of a child it cannot terminate: one that
\* has exited already
KillKeptWhenExited(id) ==
    IF os[processes[id].child].status.kind = "running"
    THEN [k \in DOMAIN processes \ {id} |-> processes[k]]
    ELSE processes

\* a kill that empties the registry
KillCleared(id) == [k \in {} |-> 0]

\* an insert that leaves the map as it is
MapInsertLost(m, k, v) == m

\* a buffer that takes each chunk twice
DoubledSlice(b, chunk) == b \o chunk \o chunk

\* a buffer that takes each chunk at its front
PrependedSlice(b, chunk) == chunk \o b

\* a buffer that keeps only the last chunk
ReplacedBySlice(b, chunk) == chunk

\* an exited status that leaves the exit code out
ProcessExitedNoCode(status, out, err) ==
    [NoRet EXCEPT !.tag = "Ok", !.running = FALSE, !.exit_code = None,
                  !.stdout = Some(out), !.stderr = Some(err)]

\* an unknown identifier answered like a running process
NotFoundAsRunning == [NoRet EXCEPT !.tag = "Ok", !.running = TRUE]

\* a failed spawn answered like any other failure
LaunchFailureAsErr(end) == Err(end)

\* a launch that does not look at the result of prepare_natives
PrepareNativesIgnored(gameDir, natives) == TRUE

\* a guard that outlives the block and is held across the next read
GuardKept(p, s) == bufLock

\* the two arms exchanged
CleanupIsDeadOnErr(tw) == tw.res = "Err"

\* a notification sent twice
EmittedTwice(id) == events \o <<id, id>>

\* The preparation scenario in one record: the build's host, the files of
\* the natives root, the platform directories, the libraries, whether
\* create_dir_all(natives) succeeds, and the position and locals of the call
\* of prepare_natives_local that is running.  log holds one entry per
\* finished call, for the properties below.
NoSub == [d \in {"windows", "linux", "macos", "osx"} |->
            [exists |-> FALSE, files |-> <<>>]]

NatWith(host, root, sub, libs, dirOk) ==
    [host |-> host, root |-> root, sub |-> sub, libs |-> libs,
     dirOk |-> dirOk, pc |-> "idle", before |-> root, jars |-> <<>>, i |-> 0,
     copied |-> 0, scanned |-> FALSE, passed |-> <<>>, skipped |-> <<>>,
     failed |-> <<>>, wrote |-> 0, log |-> <<>>]

NatIdle == NatWith("linux", EmptyRoot, NoSub, None, TRUE)

\* ------------------------------------------------------------- Init
LauncherInit(n) ==
    /\ initialized = FALSE
    /\ nextId = 1
    /\ idLock = NoThread
    /\ regLock = NoThread
    /\ processes = [k \in {} |-> 0]
    /\ pc = [c \in Callers |-> "idle"]
    /\ loc = [c \in Callers |-> NoLoc]
    /\ ret = [c \in Callers |-> NoRet]
    /\ quota = n
    /\ os = <<>>
    /\ buf = <<>>
    /\ bufLock = <<>>
    /\ rd = <<>>
    /\ issued = <<>>
    /\ removed = [k \in Keys |-> [kill |-> 0, cleanup |-> 0]]
    /\ events = <<>>

\* The command-line scenario in one record: the request, the files under
\* game_dir/libraries in walk order (None: not a directory), the build's
\* host, and the arguments given to cmd.arg(..) once they are built.
CmdWith(req, listing, host) ==
    [req |-> req, listing |-> listing, host |-> host, pc |-> "request",
     argv |-> <<>>]

NoRequest ==
    [class_path |-> <<>>, game_dir |-> <<>>, assets_dir |-> <<>>, ram |-> <<>>,
     jvm_args |-> <<>>, main_class |-> <<>>, client_args |-> <<>>,
     username |-> <<>>, uuid |-> <<>>, access_token |-> <<>>,
     profile_id |-> <<>>, server_address |-> None, server_port |-> None]

CmdIdle == CmdWith(NoRequest, None, "linux")

InitWith(n) == LauncherInit(n) /\ nat = NatIdle /\ cmdl = CmdIdle

Init == InitWith(MaxLaunches)

\* ------------------------------------------------------------- helpers
\* HashMap::insert: an existing value under the key is replaced
MapInsert(m, k, v) == [x \in DOMAIN m \cup {k} |-> IF x = k THEN v ELSE m[x]]

\* HashMap::remove of every key in K
MapRemove(m, K) == [x \in DOMAIN m \ K |-> m[x]]

\* Mutex::lock returns once no thread holds the mutex: NEXT_ID, PROCESSES
\* and the buffer of one stream of one child
CounterLockFree == idLock = NoThread
RegistryLockFree == regLock = NoThread
BufferLockFree(p, s) == bufLock[p][s] = BufFree

\* Child::try_wait on a child this process spawned and nobody else reaps:
\* Ok(None) while it runs, Ok(Some(status)) once it has exited
TryWait(p) ==
    IF os[p].status.kind = "running"
    THEN [res |-> "Ok", status |-> None]
    ELSE [res |-> "Ok", status |-> Some(os[p].status)]

Return(c, r) ==
    /\ ret' = [ret EXCEPT ![c] = r]
    /\ pc' = [pc EXCEPT ![c] = "ret"]

\* the command has returned to its caller
Returned(c) ==
    /\ pc[c] = "ret"
    /\ pc' = [pc EXCEPT ![c] = "idle"]
    /\ loc' = [loc EXCEPT ![c] = NoLoc]
    /\ ret' = [ret EXCEPT ![c] = NoRet]
    /\ UNCHANGED <<initialized, nextId, idLock, regLock, processes, quota,
                   os, buf, bufLock, rd, issued, removed, events>>

\* ------------------------------------------------- launch_game_client
\* What one launch meets outside the program: the kind of game_dir, whether
\* prepare_natives_local, once game_dir/natives exists, returns Ok(()), the
\* kind of assets_dir, whether create_dir_all(assets_dir) succeeds, whether
\* cmd.spawn() succeeds.  A field the launch never looks at is left as it is
\* in NoEnv.
LaunchEnvs ==
    {e \in [gameDir : DirKinds, natives : BOOLEAN, assetsDir : DirKinds,
            mkAssets : BOOLEAN, spawn : BOOLEAN] :
        /\ e.gameDir = "file" => ~e.natives
        /\ ~e.natives => e.assetsDir = "dir"
        /\ e.assetsDir # "absent" => ~e.mkAssets
        /\ (~e.natives \/ (e.assetsDir = "absent" /\ ~e.mkAssets)) => ~e.spawn}

\* PROCESSES.get_or_init(..); generate_process_id: NEXT_ID.lock().unwrap();
\* let current_id = *id;
LaunchBegin(c) ==
    /\ pc[c] = "idle"
    /\ quota > 0
    /\ CounterLockFree
    /\ quota' = quota - 1
    /\ initialized' = TRUE
    /\ idLock' = c
    /\ loc' = [loc EXCEPT ![c] = [NoLoc EXCEPT !.op = "launch", !.cur = nextId]]
    /\ pc' = [pc EXCEPT ![c] = "gen_inc"]
    /\ UNCHANGED <<nextId, regLock, processes, ret, os, buf, bufLock, rd,
                   issued, removed, events>>

\* the value *id += 1 stores
NextIdAfter(id) == id + 1

\* generate_process_id: *id += 1; format!(..); the guard is dropped on return
GenIncReturn(c) ==
    /\ pc[c] = "gen_inc"
    /\ nextId' = NextIdAfter(nextId)
    /\ idLock' = NoThread
    /\ loc' = [loc EXCEPT ![c].id = FormatId(loc[c].cur)]
    /\ issued' = Append(issued, FormatId(loc[c].cur))
    /\ pc' = [pc EXCEPT ![c] = "run"]
    /\ UNCHANGED <<initialized, regLock, processes, ret, quota, os, buf,
                   bufLock, rd, removed, events>>

\* prepare_natives(&game_dir): create_dir_all(game_dir/natives) fails when
\* game_dir is a file; after that the natives and the libraries decide, as
\* in the preparation scenario below
PrepareNativesOk(gameDir, natives) == gameDir # "file" /\ natives

\* game_dir once prepare_natives has created game_dir/natives
GameDirPrepared(gameDir) == IF gameDir = "absent" THEN "dir" ELSE gameDir

\* if !game_dir_path.exists() { create_dir_all(..)? }
\* if !game_dir_path.is_dir() { return Err(..) }
ValidateGameDir(kind, mk) ==
    IF kind = "absent"
    THEN (IF mk THEN "ok" ELSE "Failed to create game directory")
    ELSE IF kind # "dir" THEN "Path is not a valid directory"
    ELSE "ok"

\* if !assets_dir_path.exists() { create_dir_all(..)? }
ValidateAssetsDir(kind, mk) ==
    IF kind = "absent" /\ ~mk THEN "Failed to create assets directory"
    ELSE "ok"

\* launch_game_client from prepare_natives to cmd.spawn(): the steps taken,
\* in order, and how they end
LaunchRun(e) ==
    IF ~PrepareNativesOk(e.gameDir, e.natives)
    THEN [steps |-> <<"prepare">>,
          end |-> "Failed to prepare native libraries"]
    ELSE IF ValidateGameDir(GameDirPrepared(e.gameDir), TRUE) # "ok"
    THEN [steps |-> <<"prepare", "command", "game_dir">>,
          end |-> ValidateGameDir(GameDirPrepared(e.gameDir), TRUE)]
    ELSE IF ValidateAssetsDir(e.assetsDir, e.mkAssets) # "ok"
    THEN [steps |-> <<"prepare", "command", "game_dir", "assets_dir">>,
          end |-> ValidateAssetsDir(e.assetsDir, e.mkAssets)]
    ELSE [steps |-> <<"prepare", "command", "game_dir", "assets_dir", "spawn">>,
          end |-> IF e.spawn THEN "spawned" ELSE "spawn failed"]

\* cmd.spawn() returning Err(e): Ok(LaunchResult { success: false, .. })
SpawnFailed ==
    [NoRet EXCEPT !.tag = "Ok", !.success = FALSE, !.process_id = None,
                  !.error = Some("Failed to launch game")]

\* what launch_game_client returns when it ends before the registry insert
LaunchFailure(end) == IF end = "spawn failed" THEN SpawnFailed ELSE Err(end)

\* what cmd.spawn() returning Ok(child) starts: the child and its two readers
NewChild == [status |-> Running, out |-> EmptyStreams, key |-> NoKey]
NewReaders == [s \in Streams |-> [pc |-> "read", chunk |-> <<>>]]

PrepareSpawn(c) ==
    /\ pc[c] = "run"
    /\ \E e \in LaunchEnvs :
          LET run == LaunchRun(e)
          IN  IF run.end = "spawned"
              THEN /\ os' = Append(os, NewChild)
                   /\ buf' = Append(buf, EmptyStreams)
                   /\ bufLock' = Append(bufLock, [s \in Streams |-> BufFree])
                   /\ rd' = Append(rd, NewReaders)
                   /\ loc' = [loc EXCEPT ![c].child = Len(os) + 1,
                                         ![c].env = e,
                                         ![c].steps = run.steps]
                   /\ pc' = [pc EXCEPT ![c] = "insert"]
                   /\ ret' = ret
              ELSE /\ Return(c, LaunchFailure(run.end))
                   /\ loc' = [loc EXCEPT ![c].env = e, ![c].steps = run.steps]
                   /\ UNCHANGED <<os, buf, bufLock, rd>>
    /\ UNCHANGED <<initialized, nextId, idLock, regLock, processes, quota,
                   issued, removed, events>>

\* if let Some(processes_lock) = PROCESSES.get() {
\*     processes_lock.lock().unwrap().insert(process_id.clone(), ..) }
Insert(c) ==
    /\ pc[c] = "insert"
    /\ RegistryLockFree
    /\ IF initialized
       THEN /\ processes' =
                  MapInsert(processes, loc[c].id, [child |-> loc[c].child])
            /\ os' = [os EXCEPT ![loc[c].child].key = loc[c].id]
       ELSE UNCHANGED <<processes, os>>
    /\ loc' = [loc EXCEPT ![c].env = NoEnv]
    /\ pc' = [pc EXCEPT ![c] = "emit"]
    /\ UNCHANGED <<initialized, nextId, idLock, regLock, ret, quota, buf,
                   bufLock, rd, issued, removed, events>>

Launched(id) ==
    [NoRet EXCEPT !.tag = "Ok", !.success = TRUE, !.process_id = Some(id),
                  !.error = None]

\* the notifications once app_handle.emit("game-launched", &process_id) has
\* run
Emitted(id) == Append(events, id)

\* app_handle.emit("game-launched", &process_id); Ok(LaunchResult { .. })
EmitReturn(c) ==
    /\ pc[c] = "emit"
    /\ events' = Emitted(loc[c].id)
    /\ Return(c, Launched(loc[c].id))
    /\ UNCHANGED <<initialized, nextId, idLock, regLock, processes, loc,
                   quota, os, buf, bufLock, rd, issued, removed>>

\* ------------------------------------------------- check_game_process
ProcessRunning ==
    [NoRet EXCEPT !.tag = "Ok", !.running = TRUE, !.exit_code = None,
                  !.stdout = None, !.stderr = None]

ProcessExited(status, out, err) ==
    [NoRet EXCEPT !.tag = "Ok", !.running = FALSE,
                  !.exit_code = StatusCode(status),
                  !.stdout = Some(out), !.stderr = Some(err)]

\* Err("Process not found".to_string()), of check_game_process and of
\* kill_game_process
NotFound == Err("Process not found")

\* Err("Process manager not initialized".to_string())
NotInitialized == Err("Process manager not initialized")

\* the arm of match game_process.child.try_wait() that is taken
PollArm(tw) ==
    CASE tw.res = "Ok" /\ tw.status # None -> "exited"
      [] tw.res = "Ok" /\ tw.status = None -> "running"
      [] OTHER -> "running"

\* PROCESSES.get() is None
PollNotInit(c, id) ==
    /\ pc[c] = "idle"
    /\ ~initialized
    /\ loc' = [loc EXCEPT ![c] = [NoLoc EXCEPT !.op = "poll", !.id = id]]
    /\ Return(c, NotInitialized)
    /\ UNCHANGED <<initialized, nextId, idLock, regLock, processes, quota,
                   os, buf, bufLock, rd, issued, removed, events>>

\* processes_lock.lock().unwrap()
PollLock(c, id) ==
    /\ pc[c] = "idle"
    /\ initialized
    /\ RegistryLockFree
    /\ regLock' = c
    /\ loc' = [loc EXCEPT ![c] = [NoLoc EXCEPT !.op = "poll", !.id = id]]
    /\ pc' = [pc EXCEPT ![c] = "poll_check"]
    /\ UNCHANGED <<initialized, nextId, idLock, processes, ret, quota, os,
                   buf, bufLock, rd, issued, removed, events>>

\* processes.get_mut(&process_id) and game_process.child.try_wait().  The
\* registry guard lives to the end of the function: it is dropped on return.
PollCheck(c) ==
    /\ pc[c] = "poll_check"
    /\ IF loc[c].id \notin DOMAIN processes
       THEN /\ Return(c, NotFound)
            /\ regLock' = NoThread
            /\ loc' = loc
       ELSE LET p == processes[loc[c].id].child
                tw == TryWait(p)
            IN  IF PollArm(tw) = "exited"
                THEN /\ loc' = [loc EXCEPT ![c].child = p,
                                           ![c].seen = tw.status[1]]
                     /\ pc' = [pc EXCEPT ![c] = "poll_out"]
                     /\ UNCHANGED <<ret, regLock>>
                ELSE /\ Return(c, ProcessRunning)
                     /\ regLock' = NoThread
                     /\ loc' = [loc EXCEPT ![c].child = p,
                                           ![c].seen = os[p].status]
    /\ UNCHANGED <<initialized, nextId, idLock, processes, quota, os, buf,
                   bufLock, rd, issued, removed, events>>

\* game_process.stdout.lock().map(|buf| String::from_utf8_lossy(&buf)..):
\* the buffer guard is a temporary of this statement
PollStdout(c) ==
    /\ pc[c] = "poll_out"
    /\ BufferLockFree(loc[c].child, "stdout")
    /\ loc' = [loc EXCEPT ![c].out = FromUtf8Lossy(buf[loc[c].child].stdout)]
    /\ pc' = [pc EXCEPT ![c] = "poll_err"]
    /\ UNCHANGED <<initialized, nextId, idLock, regLock, processes, ret,
                   quota, os, buf, bufLock, rd, issued, removed, events>>

\* the same for stderr, then Ok(ProcessStatus { running: false, .. })
PollStderrReturn(c) ==
    /\ pc[c] = "poll_err"
    /\ BufferLockFree(loc[c].child, "stderr")
    /\ Return(c, ProcessExited(loc[c].seen, loc[c].out,
                               FromUtf8Lossy(buf[loc[c].child].stderr)))
    /\ regLock' = NoThread
    /\ UNCHANGED <<initialized, nextId, idLock, processes, loc, quota, os,
                   buf, bufLock, rd, issued, removed, events>>

\* -------------------------------------------------- kill_game_process
KillNotInit(c, id) ==
    /\ pc[c] = "idle"
    /\ ~initialized
    /\ loc' = [loc EXCEPT ![c] = [NoLoc EXCEPT !.op = "kill", !.id = id]]
    /\ Return(c, NotInitialized)
    /\ UNCHANGED <<initialized, nextId, idLock, regLock, processes, quota,
                   os, buf, bufLock, rd, issued, removed, events>>

KillLock(c, id) ==
    /\ pc[c] = "idle"
    /\ initialized
    /\ RegistryLockFree
    /\ regLock' = c
    /\ loc' = [loc EXCEPT ![c] = [NoLoc EXCEPT !.op = "kill", !.id = id]]
    /\ pc' = [pc EXCEPT ![c] = "kill_remove"]
    /\ UNCHANGED <<initialized, nextId, idLock, processes, ret, quota, os,
                   buf, bufLock, rd, issued, removed, events>>

\* Child::kill: it succeeds on a running child; on a child that has exited
\* the platform and the toolchain decide between Ok(()) and an error
KillResults(p) ==
    IF os[p].status.kind = "running" THEN {"Ok"} ELSE {"Ok", "Err"}

\* Ok(true), or Err(format!("Failed to kill process: {}", e))
KillValue(res) ==
    IF res = "Ok"
    THEN [NoRet EXCEPT !.tag = "Ok", !.value = TRUE]
    ELSE Err("Failed to kill process")

\* the registry once processes.remove(&process_id) has returned Some(..)
KillRemoved(id) == MapRemove(processes, {id})

\* processes.remove(&process_id), game_process.child.kill(), return
KillRemove(c) ==
    /\ pc[c] = "kill_remove"
    /\ regLock' = NoThread
    /\ IF loc[c].id \notin DOMAIN processes
       THEN /\ Return(c, NotFound)
            /\ UNCHANGED <<processes, removed, os, loc>>
       ELSE LET p == processes[loc[c].id].child
            IN  /\ processes' = KillRemoved(loc[c].id)
                /\ removed' = [removed EXCEPT ![loc[c].id].kill = @ + 1]
                /\ loc' = [loc EXCEPT ![c].child = p,
                                      ![c].seen = os[p].status]
                /\ os' = [os EXCEPT ![p].status =
                            IF @.kind = "running" THEN Signaled ELSE @]
                /\ \E res \in KillResults(p) : Return(c, KillValue(res))
    /\ UNCHANGED <<initialized, nextId, idLock, quota, buf, bufLock, rd,
                   issued, events>>

\* ---------------------------------------------- cleanup_dead_processes
Unit == [NoRet EXCEPT !.tag = "Ok"]

CleanNotInit(c) ==
    /\ pc[c] = "idle"
    /\ ~initialized
    /\ loc' = [loc EXCEPT ![c] = [NoLoc EXCEPT !.op = "cleanup"]]
    /\ Return(c, Unit)
    /\ UNCHANGED <<initialized, nextId, idLock, regLock, processes, quota,
                   os, buf, bufLock, rd, issued, removed, events>>

CleanLock(c) ==
    /\ pc[c] = "idle"
    /\ initialized
    /\ RegistryLockFree
    /\ regLock' = c
    /\ loc' = [loc EXCEPT ![c] = [NoLoc EXCEPT !.op = "cleanup",
                                               !.todo = DOMAIN processes]]
    /\ pc' = [pc EXCEPT ![c] = "clean_scan"]
    /\ UNCHANGED <<initialized, nextId, idLock, processes, ret, quota, os,
                   buf, bufLock, rd, issued, removed, events>>

\* match process.child.try_wait() { Ok(_) => dead_processes.push(..),
\* Err(_) => {} }
CleanupIsDead(tw) == tw.res = "Ok"

\* one turn of for (id, process) in processes.iter_mut()
CleanExamine(c) ==
    /\ pc[c] = "clean_scan"
    /\ \E k \in loc[c].todo :
          LET tw == TryWait(processes[k].child)
              exited == os[processes[k].child].status.kind # "running"
          IN  loc' = [loc EXCEPT
                  ![c].todo = @ \ {k},
                  ![c].dead = IF CleanupIsDead(tw) THEN @ \cup {k} ELSE @,
                  ![c].gone = IF exited THEN @ \cup {k} ELSE @,
                  ![c].live = IF exited THEN @ ELSE @ \cup {k}]
    /\ UNCHANGED <<initialized, nextId, idLock, regLock, processes, pc, ret,
                   quota, os, buf, bufLock, rd, issued, removed, events>>

\* for id in dead_processes { processes.remove(&id); }, then return
CleanRemove(c) ==
    /\ pc[c] = "clean_scan"
    /\ loc[c].todo = {}
    /\ processes' = MapRemove(processes, loc[c].dead)
    /\ removed' = [k \in Keys |->
                     IF k \in loc[c].dead
                     THEN [removed[k] EXCEPT !.cleanup = @ + 1]
                     ELSE removed[k]]
    /\ regLock' = NoThread
    /\ Return(c, Unit)
    /\ UNCHANGED <<initialized, nextId, idLock, loc, quota, os, buf,
                   bufLock, rd, issued, events>>

\* ------------------------------------------------------ reader threads
\* reader.read(&mut buffer) with buffer: [u8; 1024] returning Ok(n), n > 0,
\* and stdout_clone.lock().  The read blocks while the pipe is empty and the
\* child holds it open.
ReaderReadLock(p, s) ==
    /\ rd[p][s].pc = "read"
    /\ BufferLockFree(p, s)
    /\ LET have == Len(buf[p][s])
       IN  \E n \in 1..(Len(os[p].out[s]) - have) :
              /\ n <= 1024
              /\ rd' = [rd EXCEPT ![p][s] =
                    [pc |-> "append",
                     chunk |-> SubSeq(os[p].out[s], have + 1, have + n)]]
    /\ bufLock' = [bufLock EXCEPT ![p][s] = Reader(p, s)]
    /\ UNCHANGED <<initialized, nextId, idLock, regLock, processes, pc, loc,
                   ret, quota, os, buf, issued, removed, events>>

\* stdout_buf.extend_from_slice(&buffer[..n])
ExtendFromSlice(b, chunk) == b \o chunk

\* the buffer mutexes once the guard of if let Ok(mut stdout_buf) = .. is
\* dropped at the end of its block
GuardDropped(p, s) == [bufLock EXCEPT ![p][s] = BufFree]

\* the append, and the end of the if let block
ReaderAppend(p, s) ==
    /\ rd[p][s].pc = "append"
    /\ buf' = [buf EXCEPT ![p][s] = ExtendFromSlice(@, rd[p][s].chunk)]
    /\ bufLock' = GuardDropped(p, s)
    /\ rd' = [rd EXCEPT ![p][s] = [pc |-> "read", chunk |-> <<>>]]
    /\ UNCHANGED <<initialized, nextId, idLock, regLock, processes, pc, loc,
                   ret, quota, os, issued, removed, events>>

\* reader.read(..) returning Ok(0): the pipe is empty and the child, which
\* held its write end, has exited; if n == 0 { break; }
ReaderEof(p, s) ==
    /\ rd[p][s].pc = "read"
    /\ Len(os[p].out[s]) = Len(buf[p][s])
    /\ os[p].status.kind # "running"
    /\ rd' = [rd EXCEPT ![p][s].pc = "done"]
    /\ UNCHANGED <<initialized, nextId, idLock, regLock, processes, pc, loc,
                   ret, quota, os, buf, bufLock, issued, removed, events>>

\* ------------------------------------------------------ the child itself
ChildWrite(p, s) ==
    /\ os[p].status.kind = "running"
    /\ Len(os[p].out[s]) < MaxOut
    /\ os' = [os EXCEPT ![p].out[s] = Append(@, ChildByte(s, Len(@) + 1))]
    /\ UNCHANGED <<initialized, nextId, idLock, regLock, processes, pc, loc,
                   ret, quota, buf, bufLock, rd, issued, removed, events>>

ChildExit(p) ==
    /\ os[p].status.kind = "running"
    /\ \E st \in ExitStatuses : os' = [os EXCEPT ![p].status = st]
    /\ UNCHANGED <<initialized, nextId, idLock, regLock, processes, pc, loc,
                   ret, quota, buf, bufLock, rd, issued, removed, events>>

\* ------------------------------------------------ prepare_natives_local
\* the call returns res: what it returned, the root before it, and what
\* it did
NatReturn(n, op, res) ==
    [n EXCEPT !.pc = "idle",
              !.log = Append(@,
                  [op |-> op, res |-> res, before |-> n.before,
                   after |-> n.root, copied |-> n.copied,
                   scanned |-> n.scanned, passed |-> n.passed,
                   skipped |-> n.skipped, failed |-> n.failed,
                   wrote |-> n.wrote])]

\* the locals of a call that starts
NatCall(n) ==
    [n EXCEPT !.before = n.root, !.jars = <<>>, !.i = 0, !.copied = 0,
              !.scanned = FALSE, !.passed = <<>>, !.skipped = <<>>,
              !.failed = <<>>, !.wrote = 0]

\* fs::create_dir_all(&natives_dir).map_err(..)?
PrepCreateDir ==
    /\ nat.pc = "idle"
    /\ Len(nat.log) < MaxRuns
    /\ nat' = IF nat.dirOk
              THEN [NatCall(nat) EXCEPT !.pc = "consolidate"]
              ELSE NatReturn(NatCall(nat), "prepare",
                             "Failed to create natives directory")

\* if let Err(e) = consolidate_natives(&natives_dir) { eprintln!(..) }
PrepConsolidate ==
    /\ nat.pc = "consolidate"
    /\ LET done == ConsolidateNatives(nat.root, nat.sub)
       IN  nat' = [nat EXCEPT !.root = done.root, !.copied = done.copied,
                              !.pc = "check"]

\* let has_natives = check_natives_exist_in_root(&natives_dir);
\* if has_natives { return Ok(()); }
PrepCheck ==
    /\ nat.pc = "check"
    /\ nat' = IF CheckNativesExistInRoot(nat.root)
              THEN NatReturn(nat, "prepare", "Ok")
              ELSE [nat EXCEPT !.pc = "find"]

\* let natives_jars = find_natives_jars(&libraries_dir)?;
\* if natives_jars.is_empty() { return Ok(()); }
PrepFind ==
    /\ nat.pc = "find"
    /\ LET jars == FindNativesJars(nat.libs)
           n == [nat EXCEPT !.scanned = TRUE, !.jars = jars, !.i = 1]
       IN  nat' = IF jars = <<>>
                  THEN NatReturn(n, "prepare", "Ok")
                  ELSE [n EXCEPT !.pc = "loop"]

\* one turn of for jar_path in &natives_jars
PrepJar ==
    /\ nat.pc = "loop"
    /\ nat.i <= Len(nat.jars)
    /\ LET j == nat.jars[nat.i]
           ex == ExtractNativesFromJar(nat.root, j)
       IN  nat' = IF SkippedAsForeign(j, nat.host)
                  THEN [nat EXCEPT !.skipped = Append(@, j), !.i = @ + 1]
                  ELSE [nat EXCEPT
                          !.root = ex.root,
                          !.passed = Append(@, j),
                          !.failed = IF ex.res = "Err" THEN Append(@, j) ELSE @,
                          !.wrote = @ + ex.wrote,
                          !.i = @ + 1]

\* let has_natives = check_natives_exist_in_root(&natives_dir); Ok(()) or
\* Err("No native libraries were extracted to root directory")
PrepRecheck ==
    /\ nat.pc = "loop"
    /\ nat.i > Len(nat.jars)
    /\ nat' = NatReturn(nat, "prepare",
                        IF CheckNativesExistInRoot(nat.root)
                        THEN "Ok"
                        ELSE "No native libraries were extracted")

\* consolidate_natives called on its own, on a natives directory that exists
ConsolidateCall ==
    /\ nat.pc = "idle"
    /\ Len(nat.log) < MaxRuns
    /\ nat.dirOk
    /\ LET done == ConsolidateNatives(nat.root, nat.sub)
       IN  nat' = NatReturn([NatCall(nat) EXCEPT !.root = done.root,
                                                 !.copied = done.copied],
                            "consolidate", done.res)

\* ------------------------------------------------------ specifications
\* The four commands, run by the callers in C.
Launching(C) ==
    \/ \E c \in C : LaunchBegin(c)
    \/ \E c \in C : GenIncReturn(c)
    \/ \E c \in C : PrepareSpawn(c)
    \/ \E c \in C : Insert(c)
    \/ \E c \in C : EmitReturn(c)

Polling(C) ==
    \/ \E c \in C, id \in Keys : PollNotInit(c, id)
    \/ \E c \in C, id \in Keys : PollLock(c, id)
    \/ \E c \in C : PollCheck(c)
    \/ \E c \in C : PollStdout(c)
    \/ \E c \in C : PollStderrReturn(c)

Killing(C) ==
    \/ \E c \in C, id \in Keys : KillNotInit(c, id)
    \/ \E c \in C, id \in Keys : KillLock(c, id)
    \/ \E c \in C : KillRemove(c)

Cleaning(C) ==
    \/ \E c \in C : CleanNotInit(c)
    \/ \E c \in C : CleanLock(c)
    \/ \E c \in C : CleanExamine(c)
    \/ \E c \in C : CleanRemove(c)

Commands(C) ==
    \/ Launching(C)
    \/ Polling(C)
    \/ Killing(C)
    \/ Cleaning(C)
    \/ \E c \in C : Returned(c)

\* The children exit on their own.
Exits == \E p \in Pids : ChildExit(p)

\* The children write, and the reader threads run.
Output ==
    \/ \E p \in Pids, s \in Streams : ChildWrite(p, s)
    \/ \E p \in Pids, s \in Streams : ReaderReadLock(p, s)
    \/ \E p \in Pids, s \in Streams : ReaderAppend(p, s)
    \/ \E p \in Pids, s \in Streams : ReaderEof(p, s)

\* The registry scenario: MaxLaunches launches by concurrent callers.  The
\* children write nothing and the steps of their readers, which touch
\* nothing a command reads, are left out.
Next == (Commands(Callers) \/ Exits) /\ UNCHANGED <<nat, cmdl>>

Spec == Init /\ [][Next]_vars

\* The output scenario: IoLaunches launches, of children that write, with
\* the readers running.
InitIo == InitWith(IoLaunches)

NextIo == (Commands(Callers) \/ Exits \/ Output) /\ UNCHANGED <<nat, cmdl>>

SpecIo == InitIo /\ [][NextIo]_vars

\* The polling scenario: one caller launches and then only polls, so that a
\* record stays in the registry.  A thread that can take a step takes it
\* (the callers inside a command, the readers, the child writing what it has
\* to write), and the caller polls every identifier again and again.
Pollers == {"c1"}

NextPoll ==
    /\ \/ Launching(Pollers)
       \/ Polling(Pollers)
       \/ \E c \in Pollers : Returned(c)
       \/ Exits
       \/ Output
    /\ UNCHANGED <<nat, cmdl>>

InCommand(c) ==
    \/ GenIncReturn(c)
    \/ PrepareSpawn(c)
    \/ Insert(c)
    \/ EmitReturn(c)
    \/ PollCheck(c)
    \/ PollStdout(c)
    \/ PollStderrReturn(c)
    \/ Returned(c)

FairPoll ==
    /\ \A c \in Pollers : WF_vars(InCommand(c))
    /\ \A c \in Pollers, id \in Keys : SF_vars(PollLock(c, id))
    /\ \A p \in 1..IoLaunches, s \in Streams :
          /\ WF_vars(p \in Pids /\ ReaderReadLock(p, s))
          /\ WF_vars(p \in Pids /\ ReaderAppend(p, s))
          /\ WF_vars(p \in Pids /\ ReaderEof(p, s))

SpecPoll == InitIo /\ [][NextPoll]_vars /\ FairPoll

\* The kill scenario: one caller runs every command against children that
\* write, and the reader threads, which the scheduler runs whenever they
\* can take a step, are the only threads that are sure to go on.
Killers == {"c1"}

NextKill ==
    (Commands(Killers) \/ Exits \/ Output) /\ UNCHANGED <<nat, cmdl>>

FairReaders ==
    \A p \in 1..IoLaunches, s \in Streams :
        /\ WF_vars(p \in Pids /\ ReaderReadLock(p, s))
        /\ WF_vars(p \in Pids /\ ReaderAppend(p, s))
        /\ WF_vars(p \in Pids /\ ReaderEof(p, s))

SpecKill == InitIo /\ [][NextKill]_vars /\ FairReaders

\* The preparation scenario: MaxRuns calls of prepare_natives_local or of
\* consolidate_natives, one after the other, on a game directory taken from
\* the trees below.
Absent == [exists |-> FALSE, files |-> <<>>]
Dir(files) == [exists |-> TRUE, files |-> files]

PreRoots ==
    {EmptyRoot,
     RootWith(EmptyRoot, <<"a", "so">>, "old"),
     RootWith(EmptyRoot, <<"a", "SO">>, "old"),
     RootWith(EmptyRoot, <<"n", "txt">>, "old")}

SubTrees ==
    {t \in [windows : {Absent, Dir(<<File("c", "dll", "windows")>>)},
            linux : {Absent, Dir(<<>>),
                     Dir(<<File("a", "so", "linux")>>),
                     Dir(<<File("b", "DLL", "linux"), File("a", "so", "linux")>>),
                     Dir(<<Unreadable(File("c", "so", "linux")),
                           File("a", "so", "linux")>>)},
            macos : {Absent, Dir(<<File("a", "so", "macos")>>)},
            osx : {Absent, Dir(<<File("a", "so", "osx"),
                                 File("r", "txt", "osx")>>)}] :
        Cardinality({d \in DOMAIN t : t[d].exists}) <= 2}

Lib == <<"lib">>
JarLinux ==
    SoundJar(Lib, <<"a", "-", "natives", "-", "linux">>, "jar",
             <<File("m", "txt", "jl"), File("a", "so", "jl")>>)
JarWindows ==
    SoundJar(Lib, <<"a", "-", "natives", "-", "windows">>, "jar",
             <<File("a", "dll", "jw")>>)
JarOsx ==
    SoundJar(Lib, <<"a", "-", "Natives", "-", "osx">>, "jar",
             <<File("a", "dylib", "jo")>>)
JarPlain ==
    SoundJar(Lib, <<"a", "-", "natives">>, "jar", <<File("p", "SO", "jp")>>)
JarBroken ==
    Jar(Lib, <<"b", "-", "natives", "-", "linux">>, "jar", 0,
        <<File("b", "so", "jb")>>)
JarTorn ==
    Jar(Lib, <<"t", "-", "natives", "-", "linux">>, "jar", 2,
        <<File("t", "so", "jt"), File("u", "so", "jt")>>)
JarInMarkedDir ==
    SoundJar(<<"natives", "-", "linux">>,
             <<"a", "-", "natives", "-", "windows">>, "jar",
             <<File("a", "dll", "jd")>>)
JarVersioned ==
    SoundJar(Lib, <<"a", "-", "natives", "-", "1">>, "jar",
             <<File("v", "so", "jv")>>)
JarOther == SoundJar(Lib, <<"a">>, "jar", <<File("o", "so", "jx")>>)
JarUpper ==
    SoundJar(Lib, <<"a", "-", "natives", "-", "macos">>, "JAR",
             <<File("a", "dylib", "ju")>>)

JarKinds == {JarLinux, JarWindows, JarOsx, JarPlain, JarBroken, JarTorn,
             JarInMarkedDir, JarVersioned, JarOther, JarUpper}
PairKinds == {JarLinux, JarWindows, JarPlain, JarBroken, JarTorn}

Libraries ==
    {None, Some(<<>>)}
        \cup {Some(<<j>>) : j \in JarKinds}
        \cup {Some(<<q[1], q[2]>>) :
                 q \in {r \in PairKinds \X PairKinds : r[1] # r[2]}}

NatInputs ==
    {NatWith(h, r, t, l, TRUE) :
        h \in Hosts, r \in PreRoots, t \in SubTrees, l \in Libraries}
        \cup {NatWith("linux", EmptyRoot, NoSub, None, FALSE)}

InitPrep == LauncherInit(0) /\ nat \in NatInputs /\ cmdl = CmdIdle

NextPrep ==
    /\ \/ PrepCreateDir
       \/ PrepConsolidate
       \/ PrepCheck
       \/ PrepFind
       \/ PrepJar
       \/ PrepRecheck
       \/ ConsolidateCall
    /\ UNCHANGED <<vars, cmdl>>

SpecPrep == InitPrep /\ [][NextPrep]_<<vars, nat, cmdl>>

\* The command-line scenario: the arguments of one request are built.
Requests ==
    [class_path : {<<>>,
                   <<Str("libraries")>>,
                   <<<<"client", ".", "jar">>, Str("libraries")>>,
                   <<Str("libraries"), <<"/", "opt", "/", "x", ".", "jar">>>>},
     game_dir : {Str("game")},
     assets_dir : {Str("assets")},
     ram : {Str("2048"), Str("512")},
     jvm_args : {<<>>, <<Str("-Da")>>, <<Str("-Db"), Str("-Da")>>},
     main_class : {Str("net.example.Client")},
     client_args : {<<>>, <<Str("--width"), Str("800")>>},
     username : {Str("alice")},
     uuid : {Str("u-1")},
     access_token : {Str("token")},
     profile_id : {Str("1.20")},
     server_address : {None, Some(Str("mc.example.org"))},
     server_port : {None, Some(25565)}]

Listed(rel, ext) == [rel |-> rel, ext |-> ext]

Listings(host) ==
    {None,
     Some(<<>>),
     Some(<<Listed(<<"b", ".", "jar">>, "jar"),
            Listed(<<"readme", ".", "txt">>, "txt"),
            Listed(<<"sub", PathSep(host), "a", ".", "jar">>, "jar")>>)}

CmdInputs ==
    {CmdWith(in[1], in[3], in[2]) :
        in \in {x \in Requests \X {"windows", "linux"}
                           \X UNION {Listings(h) : h \in {"windows", "linux"}} :
                    x[3] \in Listings(x[2])}}

InitArgs == LauncherInit(0) /\ nat = NatIdle /\ cmdl \in CmdInputs

\* launch_game_client, lines 110 to 194: every cmd.arg(..)
BuildCommand ==
    /\ cmdl.pc = "request"
    /\ cmdl' = [cmdl EXCEPT
                  !.argv = BuildArgs(cmdl.req, cmdl.listing, cmdl.host),
                  !.pc = "built"]
    /\ UNCHANGED <<vars, nat>>

NextArgs == BuildCommand

SpecArgs == InitArgs /\ [][NextArgs]_<<vars, nat, cmdl>>

\* ------------------------------------------------------------ properties
NoDuplicates(seq) ==
    \A i, j \in 1..Len(seq) : i # j => seq[i] # seq[j]

\* a launch that has its identifier
HasId(c) == loc[c].op = "launch" /\ loc[c].id # NoKey

\* the children ever registered under key k
RegisteredAs(k) == {p \in Pids : os[p].key = k}

TimesRemoved(k) == removed[k].kill + removed[k].cleanup

\* C1: no two launch calls obtain the same identifier, however they
\* interleave: the identifiers generate_process_id has returned are pairwise
\* different, two launches in flight hold different identifiers, and a
\* caller between the read and the increment of the counter holds the
\* counter's mutex with the counter still at the value it read.
C1_UniqueIdentifiers ==
    /\ NoDuplicates(issued)
    /\ \A c, d \in Callers : (c # d /\ HasId(c) /\ HasId(d)) => loc[c].id # loc[d].id
    /\ \A c \in Callers :
          pc[c] = "gen_inc" => (idLock = c /\ loc[c].cur = nextId)

\* two launches in flight at once, each with its identifier
C1_Witness ==
    \E c, d \in Callers :
        /\ c # d
        /\ HasId(c) /\ pc[c] \in {"run", "insert", "emit"}
        /\ HasId(d) /\ pc[d] \in {"run", "insert", "emit"}

\* C2: an identifier maps to at most one record over the whole run: at most
\* one child is ever registered under a key, the record under a key is that
\* child's, and a launch about to insert holds a key that is neither in the
\* registry (the insert replaces nothing) nor has ever been removed from it
\* (a removed identifier is not assigned again).
C2_NoReplaceNoReuse ==
    /\ \A k \in Keys : Cardinality(RegisteredAs(k)) <= 1
    /\ \A k \in DOMAIN processes : RegisteredAs(k) = {processes[k].child}
    /\ \A c \in Callers :
          pc[c] = "insert" =>
              /\ loc[c].id \notin DOMAIN processes
              /\ RegisteredAs(loc[c].id) = {}
              /\ TimesRemoved(loc[c].id) = 0

\* a launch has just inserted its record after another identifier's record
\* was removed
C2_Witness ==
    \E c \in Callers, k \in Keys :
        /\ pc[c] = "emit"
        /\ loc[c].id # k
        /\ loc[c].id \in DOMAIN processes
        /\ TimesRemoved(k) > 0

KillReturned(c) == pc[c] = "ret" /\ loc[c].op = "kill"

\* kill_game_process found the record and the child was still running
KilledLive(c) == KillReturned(c) /\ loc[c].child # 0 /\ loc[c].seen = Running

KillSucceeded(c) == ret[c].tag = "Ok" /\ ret[c].value = TRUE

KillNotFound(c) == ret[c].tag = "Err" /\ ret[c].msg = "Process not found"

\* what holds of the kills in every state
KillOnceInState ==
    /\ \A k \in Keys : removed[k].kill <= 1
    /\ \A c \in Callers :
          /\ KilledLive(c) => KillSucceeded(c)
          /\ (KillReturned(c) /\ ret[c].tag = "Ok") => loc[c].child # 0
    /\ \A c, d \in Callers :
          (c # d /\ KillReturned(c) /\ KillReturned(d) /\ loc[c].id = loc[d].id)
              => ~(ret[c].tag = "Ok" /\ ret[d].tag = "Ok")

\* a kill that looks its identifier up after another kill removed the record
LaterKillNotFound ==
    \A c \in Callers :
        (pc[c] = "kill_remove" /\ pc'[c] = "ret" /\ removed[loc[c].id].kill > 0)
            => (ret'[c].tag = "Err" /\ ret'[c].msg = "Process not found")

\* C3: a kill that finds the record of a live process reports success; no
\* record is removed by kill twice, and a kill that looks the identifier up
\* after a kill removed its record reports not found; success is reported
\* only by a kill that found the record; of two kills of one identifier that
\* have both returned, at most one reports success.
C3_KillOnce == []KillOnceInState /\ [][LaterKillNotFound]_vars

\* two kills of the identifier of a live process have both returned: one
\* with success, the other with not found
C3_Witness ==
    \E c, d \in Callers :
        /\ c # d
        /\ KilledLive(c) /\ KillSucceeded(c)
        /\ KillReturned(d) /\ loc[d].id = loc[c].id /\ KillNotFound(d)

\* the exit code and the two strings a poll owes for child p once it has
\* exited and its readers have drained the pipes
FinalCode(p) ==
    IF os[p].status.kind = "exited" THEN <<os[p].status.code>> ELSE <<>>

\* The text of a sequence of bytes, position by position: a byte that
\* continues the two-byte sequence begun just before it gives no character
\* of its own, the first byte of such a sequence gives the character of
\* the two, an ASCII byte gives itself, any other byte gives U+FFFD.
Starts(bytes) ==
    LET absorbed(i) == /\ i > 1
                       /\ bytes[i] \in 128..191
                       /\ bytes[i - 1] \in 194..223
    IN  SelectSeq([i \in 1..Len(bytes) |-> i], LAMBDA i : ~absorbed(i))

TextOf(bytes) ==
    LET at == Starts(bytes)
        char(i) ==
            IF bytes[i] < 128 THEN bytes[i]
            ELSE IF /\ bytes[i] \in 194..223
                    /\ i < Len(bytes)
                    /\ bytes[i + 1] \in 128..191
            THEN (bytes[i] - 192) * 64 + (bytes[i + 1] - 128)
            ELSE 65533
    IN  [k \in 1..Len(at) |-> char(at[k])]

FinalText(p, s) == TextOf(os[p].out[s])

PollReturned(c) == pc[c] = "ret" /\ loc[c].op = "poll"

\* a poll has returned the final status of child p with all of its output
PolledFinal(p) ==
    \E c \in Callers :
        /\ PollReturned(c)
        /\ loc[c].child = p
        /\ ret[c].tag = "Ok"
        /\ ret[c].running = FALSE
        /\ ret[c].exit_code = FinalCode(p)
        /\ ret[c].stdout = <<FinalText(p, "stdout")>>
        /\ ret[c].stderr = <<FinalText(p, "stderr")>>

ExitedAndRegistered(p) ==
    /\ p \in Pids
    /\ os[p].status.kind # "running"
    /\ os[p].key \in DOMAIN processes

\* C4: once a registered process has exited, a caller that keeps polling
\* its identifier is eventually told running = false with the exit code of
\* the process and every byte the process wrote to stdout and to stderr.
C4_EventuallyFinal ==
    \A p \in 1..IoLaunches : ExitedAndRegistered(p) ~> (p \in Pids /\ PolledFinal(p))

\* a poll has returned the final status of a child that wrote MaxOut bytes
\* to each stream before it exited with a code
C4_Witness ==
    \E p \in Pids :
        /\ PolledFinal(p)
        /\ os[p].status.kind = "exited"
        /\ \A s \in Streams : Len(os[p].out[s]) = MaxOut

\* the prefixes of a sequence
Prefixes(seq) == {SubSeq(seq, 1, n) : n \in 0..Len(seq)}

\* the text of the prefixes of what child p wrote to stream s
PartialTexts(p, s) == {TextOf(b) : b \in Prefixes(os[p].out[s])}

RunningShape(r) ==
    /\ r.tag = "Ok"
    /\ r.running = TRUE
    /\ r.exit_code = None /\ r.stdout = None /\ r.stderr = None

ExitedShape(r, p) ==
    /\ r.tag = "Ok"
    /\ r.running = FALSE
    /\ r.exit_code = FinalCode(p)
    /\ r.stdout # None /\ r.stdout[1] \in PartialTexts(p, "stdout")
    /\ r.stderr # None /\ r.stderr[1] \in PartialTexts(p, "stderr")

\* C5: the result of a poll of a known identifier has one of two shapes.
\* If the process had not exited when the poll looked, it is running = true
\* with no exit code and no output; if it had, it is running = false with
\* the exit code of the process and both output strings, each the text of
\* what the readers had captured.
C5_TwoShapes ==
    \A c \in Callers :
        (PollReturned(c) /\ loc[c].child # 0) =>
            IF loc[c].seen.kind = "running"
            THEN RunningShape(ret[c])
            ELSE /\ loc[c].seen = os[loc[c].child].status
                 /\ ExitedShape(ret[c], loc[c].child)

\* one poll has returned the running shape and another, of the same
\* identifier, the exited shape with output in it
C5_Witness ==
    \E c, d \in Callers :
        /\ PollReturned(c) /\ loc[c].child # 0 /\ ret[c].running = TRUE
        /\ PollReturned(d) /\ loc[d].child = loc[c].child
        /\ ret[d].tag = "Ok" /\ ret[d].running = FALSE
        /\ ret[d].exit_code # None
        /\ Len(ret[d].stdout[1]) > 0

\* a poll or a kill has returned without finding its identifier
UnknownReturned(c) ==
    /\ pc[c] = "ret"
    /\ loc[c].op \in {"poll", "kill"}
    /\ loc[c].child = 0

AnswersUnknown ==
    \A c \in Callers :
        /\ (pc[c] = "idle" /\ pc'[c] = "ret" /\ loc'[c].op \in {"poll", "kill"})
              => /\ ~initialized
                 /\ ret'[c].tag = "Err"
                 /\ ret'[c].msg = "Process manager not initialized"
        /\ (/\ pc[c] \in {"poll_check", "kill_remove"}
            /\ pc'[c] = "ret"
            /\ loc[c].id \notin DOMAIN processes)
              => /\ initialized
                 /\ ret'[c].tag = "Err"
                 /\ ret'[c].msg = "Process not found"

ReachedSpawn(st) == st # <<>> /\ st[Len(st)] = "spawn"

\* a step in which cmd.spawn() of caller c returns an error
SpawnFails(c) ==
    /\ pc[c] = "run"
    /\ pc'[c] # "run"
    /\ ReachedSpawn(loc'[c].steps)
    /\ ~loc'[c].env.spawn

\* what such a step does
FailsCleanly(c) ==
    /\ pc'[c] = "ret"
    /\ ret'[c].tag = "Ok"
    /\ ret'[c].success = FALSE
    /\ ret'[c].error # None
    /\ ret'[c].process_id = None
    /\ loc'[c].child = 0
    /\ loc'[c].id \notin DOMAIN processes'
    /\ UNCHANGED <<processes, os, buf, bufLock, rd, events, removed>>

\* C7: when the spawn fails, the launch returns a structured failure
\* (success = false, an error message, no identifier), inserts no record,
\* starts no child and no reader, and leaves the registry as it was.
C7_SpawnFailureIsClean ==
    [][\A c \in Callers : SpawnFails(c) => FailsCleanly(c)]_vars

\* a launch has returned after its spawn failed, with another launch's
\* record in the registry
C7_Witness ==
    \E c \in Callers :
        /\ pc[c] = "ret"
        /\ loc[c].op = "launch"
        /\ ReachedSpawn(loc[c].steps)
        /\ ret[c].success = FALSE
        /\ DOMAIN processes # {}

\* native preparation fails for the launch whose surroundings are e
PreparationFails(e) ==
    \/ e.gameDir = "file"
    \/ (e.gameDir \in {"dir", "absent"} /\ ~e.natives)

\* the positions of a step among the steps taken
StepAt(st, name) == {i \in 1..Len(st) : st[i] = name}

\* C8: a child is spawned only by a launch whose native preparation has run
\* and succeeded, the preparation coming first; a launch whose preparation
\* fails returns an error, having spawned no child, and its identifier has
\* no record.
C8_PrepareBeforeSpawn ==
    \A c \in Callers :
        /\ (loc[c].op = "launch" /\ pc[c] = "insert") =>
              /\ loc[c].child \in Pids
              /\ ~PreparationFails(loc[c].env)
              /\ loc[c].env.natives
              /\ StepAt(loc[c].steps, "prepare") = {1}
              /\ \A i \in StepAt(loc[c].steps, "spawn") : i > 1
        /\ (loc[c].op = "launch" /\ PreparationFails(loc[c].env)) =>
              /\ pc[c] = "ret"
              /\ ret[c].tag = "Err"
              /\ ret[c].msg = "Failed to prepare native libraries"
              /\ loc[c].child = 0
              /\ loc[c].id \notin DOMAIN processes
              /\ RegisteredAs(loc[c].id) = {}
              /\ StepAt(loc[c].steps, "spawn") = {}

\* one launch has returned the error of a failed preparation while another,
\* whose preparation succeeded, has spawned its child
C8_Witness ==
    \E c, d \in Callers :
        /\ loc[c].op = "launch" /\ PreparationFails(loc[c].env) /\ pc[c] = "ret"
        /\ loc[d].op = "launch" /\ pc[d] = "insert"

\* the steps of caller c inside a command
CallerStep(c) ==
    \/ GenIncReturn(c)
    \/ PrepareSpawn(c)
    \/ Insert(c)
    \/ EmitReturn(c)
    \/ PollCheck(c)
    \/ PollStdout(c)
    \/ PollStderrReturn(c)
    \/ KillRemove(c)
    \/ CleanExamine(c)
    \/ CleanRemove(c)
    \/ Returned(c)

\* caller c is inside a command and cannot take its next step
Blocked(c) == pc[c] # "idle" /\ ~ENABLED CallerStep(c)

\* caller c waits for a buffer whose reader is about to release it
WaitsForReader(c) ==
    \E s \in Streams :
        /\ pc[c] = (IF s = "stdout" THEN "poll_out" ELSE "poll_err")
        /\ bufLock[loc[c].child][s] = Reader(loc[c].child, s)
        /\ ENABLED ReaderAppend(loc[c].child, s)

\* caller c waits for the registry, whose holder can step or waits for such
\* a reader
WaitsForRegistry(c) ==
    /\ pc[c] = "insert"
    /\ regLock \in Callers \ {c}
    /\ (~Blocked(regLock) \/ WaitsForReader(regLock))

\* The mutexes are taken in one order.  The holder of the counter holds
\* nothing else and waits for nothing; the holder of the registry is inside
\* check, kill or cleanup and never at the counter; a buffer is held by its
\* own reader, exactly while the reader appends.
LockOrder ==
    /\ idLock # NoThread =>
          (idLock \in Callers /\ pc[idLock] = "gen_inc" /\ regLock # idLock)
    /\ regLock # NoThread =>
          /\ regLock \in Callers
          /\ pc[regLock] \in {"poll_check", "poll_out", "poll_err",
                              "kill_remove", "clean_scan"}
    /\ \A c \in Callers :
          pc[c] \in {"poll_check", "poll_out", "poll_err", "kill_remove",
                     "clean_scan"} => regLock = c
    /\ \A p \in Pids, s \in Streams :
          /\ bufLock[p][s] \in {BufFree, Reader(p, s)}
          /\ (bufLock[p][s] = Reader(p, s)) <=> (rd[p][s].pc = "append")

\* C9: nothing deadlocks.  The counter, registry and buffer mutexes are
\* taken in one order, a reader holds its buffer only while it appends and
\* not during the read, and a caller that cannot step waits for a mutex
\* whose holder can, or whose holder waits for a reader that can.
C9_NoDeadlock ==
    /\ LockOrder
    /\ \A c \in Callers :
          Blocked(c) => (WaitsForReader(c) \/ WaitsForRegistry(c))

\* a poll that holds the registry waits for a buffer its reader holds, with
\* the other caller inside a command as well
C9_Witness ==
    \E c, d \in Callers :
        /\ c # d
        /\ Blocked(c) /\ WaitsForReader(c) /\ regLock = c
        /\ pc[d] # "idle"

CleanupReturned(c) == pc[c] = "ret" /\ loc[c].op = "cleanup"

\* C10: when a cleanup pass has returned, the registry holds none of the
\* records whose process had exited when the pass examined it.
C10_ExitedAreRemoved ==
    \A c \in Callers :
        CleanupReturned(c) => loc[c].gone \cap DOMAIN processes = {}

\* a cleanup pass that examined the record of an exited process has
\* returned
C10_Witness ==
    \E c \in Callers : CleanupReturned(c) /\ loc[c].gone # {}

\* how often x occurs in a sequence
Count(seq, x) == Cardinality({i \in 1..Len(seq) : seq[i] = x})

LaunchReturned(c) == pc[c] = "ret" /\ loc[c].op = "launch"

\* the launch of an identifier is between its insert and its notification
BeforeEmit(k) == \E c \in Callers : pc[c] = "emit" /\ loc[c].id = k

\* C11: every successful spawn emits exactly one "game-launched"
\* notification, carrying the identifier the launch returns, and a launch
\* that fails emits none: an identifier is notified at most once and only
\* if its child was spawned and registered; once the launch is past the
\* emit the count is one; a launch that has returned without a child has
\* count zero.
C11_OneEventPerSpawn ==
    \A k \in Keys :
        /\ Count(events, k) <= 1
        /\ Count(events, k) = 1 => RegisteredAs(k) # {}
        /\ (RegisteredAs(k) # {} /\ ~BeforeEmit(k)) => Count(events, k) = 1
        /\ \A c \in Callers :
              (LaunchReturned(c) /\ loc[c].id = k) =>
                  IF loc[c].child # 0
                  THEN /\ Count(events, k) = 1
                       /\ ret[c].tag = "Ok" /\ ret[c].success = TRUE
                       /\ ret[c].process_id = <<k>>
                  ELSE /\ Count(events, k) = 0
                       /\ ret[c].process_id = None

\* one launch has returned its identifier, which was notified, and another
\* has returned a failure
C11_Witness ==
    \E c, d \in Callers :
        /\ LaunchReturned(c) /\ loc[c].child # 0 /\ Count(events, loc[c].id) = 1
        /\ LaunchReturned(d) /\ loc[d].child = 0

Range(seq) == {seq[i] : i \in 1..Len(seq)}

\* the finished calls of prepare_natives_local
Prepared == {e \in Range(nat.log) : e.op = "prepare"}

\* the finished calls of prepare_natives_local that went through their
\* candidate archives
Looped == {e \in Prepared : e.scanned /\ Range(e.passed) \cup Range(e.skipped) # {}}

\* The platform markers in the file name of an archive: "natives-" followed
\* by a platform, the host's ("natives-osx" counts as macos) or another.
MarkedAtAll(j) == Contains(ToLowercase(JarFileName(j)), <<"natives", "-">>)

MarkedFor(j, host) ==
    \E m \in (IF host = "macos" THEN {"osx", "macos"} ELSE {host}) :
        Contains(ToLowercase(JarFileName(j)), <<"natives", "-", m>>)

MarkedForeign(j, host) == MarkedAtAll(j) /\ ~MarkedFor(j, host)

\* C12 as stated: in a preparation, an archive whose name carries the marker
\* of a platform other than the host is never passed to the extractor, and
\* an archive whose name carries no marker, or the host's, always is.
C12_PlatformFilter ==
    \A e \in Looped :
        \A j \in Range(e.passed) \cup Range(e.skipped) :
            /\ MarkedForeign(j, nat.host) => j \notin Range(e.passed)
            /\ ~MarkedForeign(j, nat.host) => j \in Range(e.passed)

\* a native library file, by its extension in any case, directly in the
\* root, and anywhere in the platform directories
HoldsNative(root) == \E n \in DOMAIN root : Lower(n[2]) \in NativeExts

SubHoldsNative(sub) ==
    \E d \in DOMAIN sub :
        sub[d].exists /\ \E f \in Range(sub[d].files) : Lower(f.ext) \in NativeExts

\* the candidate archives of the libraries: the files named *.jar whose
\* name, in any case, contains "natives"
Candidates ==
    IF nat.libs = None THEN {}
    ELSE {j \in Range(nat.libs[1]) :
            j.ext = "jar" /\ Contains(ToLowercase(j.name), <<"natives">>)}

\* libraries holds candidate archives, all of them named for other platforms
OnlyForeign ==
    /\ Candidates # {}
    /\ \A j \in Candidates : MarkedForeign(j, nat.host)

\* C13 as stated: when the libraries hold only archives marked for foreign
\* platforms and the natives directory holds no native file, prepare
\* returns an error and the natives root is still empty afterwards.
C13_OnlyForeignFails ==
    \A e \in Prepared :
        (OnlyForeign /\ ~HoldsNative(e.before) /\ ~SubHoldsNative(nat.sub)) =>
            (e.res # "Ok" /\ ~HoldsNative(e.after))

NothingToPrepare(e) ==
    Candidates = {} /\ ~HoldsNative(e.before) /\ ~SubHoldsNative(nat.sub)

ConsolidatedTwice ==
    {i \in 1..(Len(nat.log) - 1) :
        nat.log[i].op = "consolidate" /\ nat.log[i + 1].op = "consolidate"}

\* C15: consolidation is idempotent: of two calls in a row on the same
\* tree, the second copies no file and leaves the root-level files as the
\* first left them.
C15_ConsolidateIdempotent ==
    \A i \in ConsolidatedTwice :
        /\ nat.log[i + 1].before = nat.log[i].after
        /\ nat.log[i + 1].copied = 0
        /\ nat.log[i + 1].after = nat.log[i].after
        /\ nat.log[i + 1].res = nat.log[i].res

\* two calls in a row, the first of which copied files from two platform
\* directories
C15_Witness ==
    \E i \in ConsolidatedTwice :
        /\ nat.log[i].copied >= 2
        /\ Cardinality({d \in DOMAIN nat.sub : nat.sub[d].exists}) = 2


\* ---- the command line
Built == cmdl.pc = "built"

\* What the contract says the class path is: an entry of the request stands
\* on the working directory (Path::join: an entry that is absolute stands
\* alone), the sentinel stands for the archives of the listing, in its order.
OnWorkingDir(item) ==
    IF item[1] \in {"/", "\\"} THEN item
    ELSE cmdl.req.game_dir \o <<PathSep(cmdl.host)>> \o item

Archives ==
    IF cmdl.listing = None THEN <<>>
    ELSE LET each == SelectSeq(cmdl.listing[1], LAMBDA f : f.ext = "jar")
         IN  [i \in 1..Len(each) |->
                cmdl.req.game_dir \o <<PathSep(cmdl.host), "libraries",
                                       PathSep(cmdl.host)>> \o each[i].rel]

RECURSIVE Resolved(_)
Resolved(n) ==
    IF n = 0 THEN <<>>
    ELSE Resolved(n - 1)
         \o (IF cmdl.req.class_path[n] = <<"libraries">> THEN Archives
             ELSE <<OnWorkingDir(cmdl.req.class_path[n])>>)

RECURSIVE Separated(_, _)
Separated(entries, n) ==
    IF n = 0 THEN <<>>
    ELSE IF n = 1 THEN entries[1]
    ELSE Separated(entries, n - 1)
         \o <<IF cmdl.host = "windows" THEN ";" ELSE ":">> \o entries[n]

ClassPathString ==
    LET entries == Resolved(Len(cmdl.req.class_path))
    IN  Separated(entries, Len(entries))

IdentityFlags ==
    <<"--username", "--uuid", "--accessToken", "--version", "--gameDir",
      "--assetsDir", "--assetIndex", "--userType", "--versionType">>

IdentityValues ==
    <<cmdl.req.username, cmdl.req.uuid, cmdl.req.access_token,
      cmdl.req.profile_id, cmdl.req.game_dir, cmdl.req.assets_dir,
      <<"1.12">>, <<"mojang">>, <<"release">>>>

\* the position of the entry-point class, and of the last identity value
MainAt == 6 + Len(cmdl.req.jvm_args)
IdentityEnd == MainAt + Len(cmdl.req.client_args) + 2 * Len(IdentityFlags)

\* C16: the arguments built for a request are, in this order: -cp and the
\* class path string (entries on the working directory, the sentinel
\* replaced by the archives under the libraries root, joined by the
\* platform's separator), -Xmx<ram>m, -Xms<ram>m, the library path flag for
\* the natives directory, the request's jvm flags, the entry-point class,
\* the client flags, and the nine identity flags with their values; with no
\* jvm flags the entry-point class is the sixth argument, right after the
\* library path flag.
C16_ArgumentOrder ==
    Built =>
      LET a == cmdl.argv
          r == cmdl.req
          nj == Len(r.jvm_args)
          nc == Len(r.client_args)
      IN  /\ Len(a) >= IdentityEnd
          /\ a[1] = <<"-cp">>
          /\ a[2] = ClassPathString
          /\ a[3] = <<"-Xmx">> \o r.ram \o <<"m">>
          /\ a[4] = <<"-Xms">> \o r.ram \o <<"m">>
          /\ a[5] = <<"-Djava.library.path=">> \o r.game_dir
                       \o <<PathSep(cmdl.host), "natives">>
          /\ \A i \in 1..nj : a[5 + i] = r.jvm_args[i]
          /\ a[MainAt] = r.main_class
          /\ (nj = 0 => a[6] = r.main_class)
          /\ \A i \in 1..nc : a[MainAt + i] = r.client_args[i]
          /\ \A k \in 1..Len(IdentityFlags) :
                /\ a[MainAt + nc + 2 * k - 1] = <<IdentityFlags[k]>>
                /\ a[MainAt + nc + 2 * k] = IdentityValues[k]

\* a request whose class path has an entry and the sentinel, over libraries
\* that hold two archives and another file, with jvm and client flags
C16_Witness ==
    /\ Built
    /\ Len(cmdl.req.class_path) = 2
    /\ cmdl.listing # None
    /\ Len(cmdl.listing[1]) = 3
    /\ Len(cmdl.req.jvm_args) = 2
    /\ cmdl.req.client_args # <<>>
    /\ Len(cmdl.argv) >= IdentityEnd

\* what follows the identity flags
AfterIdentity == SubSeq(cmdl.argv, IdentityEnd + 1, Len(cmdl.argv))

\* C17: after the identity flags come --server and the host exactly when
\* the request names a host, then --port and the port exactly when it
\* names a host and a port; a port without a host adds nothing.
C17_ServerFlags ==
    Built =>
      LET r == cmdl.req
          host == r.server_address # None
          port == host /\ r.server_port # None
      IN  /\ Len(AfterIdentity) = (IF host THEN 2 ELSE 0) + (IF port THEN 2 ELSE 0)
          /\ host => /\ AfterIdentity[1] = <<"--server">>
                     /\ AfterIdentity[2] = r.server_address[1]
          /\ port => /\ AfterIdentity[3] = <<"--port">>
                     /\ AfterIdentity[4] = <<ToString(r.server_port[1])>>
          /\ \A i \in 1..IdentityEnd :
                cmdl.argv[i] \notin {<<"--server">>, <<"--port">>}

\* a built command line for a request that names a port and no host
C17_Witness ==
    /\ Built
    /\ cmdl.req.server_address = None
    /\ cmdl.req.server_port # None
    /\ AfterIdentity = <<>>


\* ---- directories that are files
\* the working directory or the asset directory of the launch exists and is
\* not a directory
NotADirectory(e) == e.gameDir = "file" \/ e.assetsDir = "file"

\* C18: a launch whose working directory or asset directory exists and is
\* not a directory returns an error and spawns no child.
C18_NotADirectoryIsAnError ==
    \A c \in Callers :
        (loc[c].op = "launch" /\ NotADirectory(loc[c].env)) =>
            /\ pc[c] = "ret"
            /\ ret[c].tag = "Err"
            /\ loc[c].child = 0
            /\ ~ReachedSpawn(loc[c].steps)


\* ---- what poll and kill leave alone
\* a step of check_game_process or kill_game_process run by caller c
PollOrKillStep(c) ==
    /\ loc'[c].op \in {"poll", "kill"}
    /\ pc'[c] # pc[c]

\* the step adds no record, and every record but that of id, with its
\* child, its buffers and its readers, is after the step what it was before
OthersUntouched(id) ==
    /\ DOMAIN processes' \subseteq DOMAIN processes
    /\ \A k \in DOMAIN processes \ {id} :
          /\ k \in DOMAIN processes'
          /\ processes'[k] = processes[k]
    /\ Len(os') = Len(os)
    /\ \A p \in Pids :
          os[p].key # id =>
              /\ os'[p] = os[p]
              /\ buf'[p] = buf[p]
              /\ rd'[p] = rd[p]

\* C19: a poll, and a kill of an identifier that has no record, leave the
\* registry as it is; a kill of an identifier that has a record removes
\* that record and nothing else; in both, the record, the child and the
\* buffers of every other identifier stay as they are.
C19_OthersUnaffected ==
    [][\A c \in Callers :
          PollOrKillStep(c) =>
              LET id == loc'[c].id
              IN  /\ OthersUntouched(id)
                  /\ (loc'[c].op = "poll" \/ id \notin DOMAIN processes) =>
                        processes' = processes
                  /\ (pc[c] = "kill_remove" /\ id \in DOMAIN processes) =>
                        DOMAIN processes' = DOMAIN processes \ {id}]_vars

\* a kill has removed the record of its identifier while another record
\* is in the registry, and a poll of the removed identifier has found none
C19_Witness ==
    \E c, d \in Callers :
        /\ KillReturned(c) /\ ret[c].tag = "Ok"
        /\ loc[c].id \notin DOMAIN processes
        /\ DOMAIN processes # {}
        /\ pc[d] = "ret" /\ loc[d].op = "poll" /\ ret[d] = NotFound


\* ---- cleanup and running processes
\* the step in which the cleanup pass of caller c removes and returns
\* (this predicate reads the state before and after the step)
CleanupRemoves(c) == pc[c] = "clean_scan" /\ pc'[c] = "ret"

\* C20: a cleanup pass removes only records whose process has exited: the
\* records whose process was running when the pass examined them are in
\* the registry when the pass returns, and no other record is removed than
\* those whose process had exited.
C20_RunningAreKept ==
    [][\A c \in Callers :
          CleanupRemoves(c) =>
              /\ loc[c].live \subseteq DOMAIN processes'
              /\ DOMAIN processes \ DOMAIN processes' \subseteq loc[c].gone]_vars


\* ---- how long the registry mutex is held
\* caller c is at the locking and decoding of the buffers of a poll
Decoding(c) == pc[c] \in {"poll_out", "poll_err"}

\* C21: a poll has released the registry mutex when it locks and decodes
\* the buffers of the record: no caller at the decoding holds the registry,
\* so that no other command waits for the registry during the decoding.
C21_DecodesUnlocked ==
    \A c \in Callers : Decoding(c) => regLock # c

\* the step in which caller c calls into the operating system for a child:
\* try_wait of a poll or of a cleanup pass, kill of a kill (this predicate
\* reads the state before and after the step)
ExternalCall(c) ==
    \/ /\ pc[c] = "poll_check" /\ pc'[c] # "poll_check"
       /\ loc[c].id \in DOMAIN processes
    \/ /\ pc[c] = "kill_remove" /\ pc'[c] # "kill_remove"
       /\ loc[c].id \in DOMAIN processes
    \/ /\ pc[c] = "clean_scan"
       /\ loc'[c].todo # loc[c].todo

\* C22: the registry mutex is not held while a call for a child is made:
\* the caller that makes try_wait or kill does not hold the registry when
\* the step of the call begins.
C22_CallsUnlocked ==
    [][\A c \in Callers : ExternalCall(c) => regLock # c]_vars


\* ---- a kill whose termination fails
\* kill_game_process has returned the error of Child::kill
KillFailed(c) ==
    /\ KillReturned(c)
    /\ ret[c].tag = "Err"
    /\ ret[c].msg = "Failed to kill process"

\* a kill that failed had found the record and has removed it
FailedKillRemoved ==
    \A c \in Callers :
        KillFailed(c) =>
            /\ loc[c].child # 0
            /\ removed[loc[c].id].kill = 1
            /\ loc[c].id \notin DOMAIN processes

\* a poll or a kill that looks up an identifier whose record a kill has
\* removed, whatever that kill returned, reports not found
LookupAfterKillNotFound ==
    \A c \in Callers :
        (/\ pc[c] \in {"poll_check", "kill_remove"}
         /\ pc'[c] # pc[c]
         /\ removed[loc[c].id].kill > 0)
            => (pc'[c] = "ret" /\ ret'[c] = NotFound)

\* C23: kill removes the record whether or not the termination succeeds: a
\* kill that returns the termination error has removed the record of its
\* identifier, and every later poll or kill of an identifier removed by a
\* kill reports not found.
C23_RemovedEvenIfKillFails ==
    []FailedKillRemoved /\ [][LookupAfterKillNotFound]_vars

\* a kill has returned the termination error and a poll of the same
\* identifier has then reported not found
C23_Witness ==
    \E c, d \in Callers :
        /\ KillFailed(c)
        /\ PollReturned(d) /\ loc[d].id = loc[c].id /\ ret[d] = NotFound


\* ---- the order of the steps of a launch
\* every step named a comes before every step named b
Before(st, a, b) == \A i \in StepAt(st, a), j \in StepAt(st, b) : i < j

\* the errors of the validation of the two directories
ConfigurationErrors ==
    {"Failed to create game directory", "Path is not a valid directory",
     "Failed to create assets directory"}

\* C24: a launch validates or creates its two directories, then prepares
\* the natives, then builds the command, then spawns; a launch that
\* returns a configuration error has not run the preparation and has
\* spawned nothing.
C24_ValidationFirst ==
    \A c \in Callers :
        (loc[c].op = "launch" /\ loc[c].steps # <<>>) =>
            /\ Before(loc[c].steps, "game_dir", "prepare")
            /\ Before(loc[c].steps, "assets_dir", "prepare")
            /\ Before(loc[c].steps, "prepare", "command")
            /\ Before(loc[c].steps, "command", "spawn")
            /\ (pc[c] = "ret" /\ ret[c].tag = "Err"
                   /\ ret[c].msg \in ConfigurationErrors) =>
                  /\ StepAt(loc[c].steps, "prepare") = {}
                  /\ loc[c].child = 0


\* ---- a poll after a poll that reported exited
IsPrefixOf(a, b) == Len(a) <= Len(b) /\ SubSeq(b, 1, Len(a)) = a

\* the poll of caller c has returned exited for an identifier whose record
\* is still in the registry, and caller d is polling that identifier
PollsAfterExited(c, d) ==
    /\ c # d
    /\ PollReturned(c) /\ ret[c].tag = "Ok" /\ ret[c].running = FALSE
    /\ loc[d].op = "poll" /\ loc[d].id = loc[c].id
    /\ loc[c].id \in DOMAIN processes

\* the later poll finds the record, takes the exited arm and, when it
\* returns, reports exited with the exit code of the earlier poll; none of
\* its steps changes the registry
LaterPollExited(c, d) ==
    /\ processes' = processes
    /\ (pc[d] = "poll_check" /\ pc'[d] # "poll_check") => pc'[d] = "poll_out"
    /\ (pc[d] = "poll_err" /\ pc'[d] = "ret") =>
          /\ ret'[d].tag = "Ok"
          /\ ret'[d].running = FALSE
          /\ ret'[d].exit_code = ret[c].exit_code

\* the strings of the later poll begin with those of the earlier
LaterTextExtends(c, d) ==
    (pc[d] = "poll_err" /\ pc'[d] = "ret") =>
        /\ IsPrefixOf(ret[c].stdout[1], ret'[d].stdout[1])
        /\ IsPrefixOf(ret[c].stderr[1], ret'[d].stderr[1])

\* r1 and r2 are the texts of two buffers, the second beginning with the
\* first, both beginnings of what the child wrote
DecodedFromExtension(r1, r2, written) ==
    \E b2 \in Prefixes(written) :
        \E b1 \in Prefixes(b2) : r1 = TextOf(b1) /\ r2 = TextOf(b2)

LaterBufferExtends(c, d) ==
    (pc[d] = "poll_err" /\ pc'[d] = "ret") =>
        /\ DecodedFromExtension(ret[c].stdout[1], ret'[d].stdout[1],
                                os[loc[d].child].out.stdout)
        /\ DecodedFromExtension(ret[c].stderr[1], ret'[d].stderr[1],
                                os[loc[d].child].out.stderr)
        /\ Len(ret[c].stdout[1]) <= Len(ret'[d].stdout[1])
        /\ Len(ret[c].stderr[1]) <= Len(ret'[d].stderr[1])

\* C25 as stated: once a poll has reported exited, a later poll of the
\* identifier, its record not removed, reports exited with the same exit
\* code, removes nothing, and returns strings that begin with the strings
\* of the earlier poll.
C25_LaterPollExtends ==
    [][\A c, d \in Callers :
          (PollsAfterExited(c, d) /\ pc'[d] # pc[d]) =>
              (LaterPollExited(c, d) /\ LaterTextExtends(c, d))]_vars

\* C25: once a poll has reported exited, a later poll of the identifier,
\* its record not removed, reports exited with the same exit code and
\* removes nothing; its strings are the texts of buffers that begin with
\* the buffers the earlier poll decoded, and are not shorter.  (A buffer
\* that ends inside a character decodes to U+FFFD there, and to the
\* character once the rest has been captured.)
C25_LaterPollSameExit ==
    [][\A c, d \in Callers :
          (PollsAfterExited(c, d) /\ pc'[d] # pc[d]) =>
              (LaterPollExited(c, d) /\ LaterBufferExtends(c, d))]_vars

\* two polls of one identifier have reported exited: the earlier decoded
\* a buffer that ended inside a character, the later the whole character
C25_Witness ==
    \E c, d \in Callers :
        /\ PollReturned(c) /\ PollReturned(d) /\ loc[c].child = loc[d].child
        /\ loc[c].child # 0
        /\ ret[c].tag = "Ok" /\ ret[c].running = FALSE
        /\ ret[d].tag = "Ok" /\ ret[d].running = FALSE
        /\ ret[c].exit_code = ret[d].exit_code
        /\ ret[c].stdout = Some(<<65533>>)
        /\ ret[d].stdout = Some(<<233>>)


\* ---- the record is there before the identifier is known
\* the record of k is in the registry, or kill or cleanup has removed it
RegisteredOrRemoved(k) == k \in DOMAIN processes \/ TimesRemoved(k) > 0

\* every identifier notified, and every identifier a launch has returned,
\* has been inserted
KnownAreRegistered ==
    /\ \A i \in 1..Len(events) : RegisteredOrRemoved(events[i])
    /\ \A c \in Callers :
          (LaunchReturned(c) /\ ret[c].process_id # None) =>
              /\ ret[c].process_id = Some(loc[c].id)
              /\ RegisteredOrRemoved(loc[c].id)

\* the notification is sent for a record that is in the registry unless it
\* was removed since its insert, and a poll of an identifier that was
\* notified reports not found only if kill or cleanup removed the record
EmitAfterInsert ==
    \A c \in Callers :
        /\ (pc[c] = "emit" /\ pc'[c] # "emit") =>
              /\ RegisteredOrRemoved(loc[c].id)
              /\ RegisteredAs(loc[c].id) = {loc[c].child}
        /\ (/\ pc[c] = "poll_check" /\ pc'[c] = "ret"
            /\ \E i \in 1..Len(events) : events[i] = loc[c].id
            /\ ret'[c] = NotFound)
              => TimesRemoved(loc[c].id) > 0

\* C26: when the notification of an identifier is emitted, and when launch
\* returns the identifier, its record has been inserted: it is in the
\* registry unless kill or cleanup has removed it, and a poll of a notified
\* identifier reports not found only after such a removal.
C26_RegisteredBeforeKnown ==
    []KnownAreRegistered /\ [][EmitAfterInsert]_vars

\* a launch has returned its identifier, which was notified, and a poll of
\* it by the other caller has found the record
C26_Witness ==
    \E c, d \in Callers :
        /\ LaunchReturned(c) /\ ret[c].process_id = Some(loc[c].id)
        /\ Count(events, loc[c].id) = 1
        /\ PollReturned(d) /\ loc[d].id = loc[c].id
        /\ ret[d].tag = "Ok"
        /\ TimesRemoved(loc[c].id) = 0


\* ---- readers and buffers
\* every child has its buffers, one reader for each of its two streams and
\* no other; what a buffer holds, followed by the chunk its reader has read
\* and not yet appended, is a beginning of what the child wrote
CapturedIsPrefix ==
    /\ Len(rd) = Len(os) /\ Len(buf) = Len(os) /\ Len(bufLock) = Len(os)
    /\ \A p \in Pids :
          /\ DOMAIN rd[p] = {"stdout", "stderr"}
          /\ DOMAIN buf[p] = {"stdout", "stderr"}
          /\ \A s \in DOMAIN rd[p] :
                /\ rd[p][s].pc \in {"read", "append", "done"}
                /\ IsPrefixOf(buf[p][s] \o rd[p][s].chunk, os[p].out[s])
                /\ IsPrefixOf(buf[p][s], os[p].out[s])

\* no step takes a byte out of a buffer or changes one: a buffer only grows
\* at its end, and only by the chunk its own reader holds
OnlyAppended ==
    \A p \in Pids : \A s \in Streams :
        /\ IsPrefixOf(buf[p][s], buf'[p][s])
        /\ buf'[p][s] # buf[p][s] =>
              /\ rd[p][s].pc = "append"
              /\ buf'[p][s] = buf[p][s] \o rd[p][s].chunk

\* C27: every spawned child has exactly two readers, one for each stream,
\* and at every moment each buffer is a beginning of the bytes the child
\* has written to its stream: the readers only append, in the order read,
\* and no byte is reordered, duplicated, dropped or cut off.
C27_BuffersArePrefixes == []CapturedIsPrefix /\ [][OnlyAppended]_vars

\* a buffer holds the first byte of its stream while its reader holds the
\* second, read and not yet appended
C27_Witness ==
    \E p \in Pids : \E s \in Streams :
        /\ Len(buf[p][s]) = 1
        /\ rd[p][s].pc = "append"
        /\ rd[p][s].chunk = <<os[p].out[s][2]>>


\* ---- the readers of a killed process
\* the step in which kill_game_process removes a record and terminates
\* its child
KillStep(c) ==
    /\ pc[c] = "kill_remove" /\ pc'[c] = "ret"
    /\ loc[c].id \in DOMAIN processes

\* such a step leaves every reader where it is, with its chunk, and every
\* buffer as it is
KillLeavesReaders ==
    \A c \in Callers : KillStep(c) => (rd' = rd /\ buf' = buf)

\* a reader ends only at the end of its stream: the child has terminated
\* and the buffer holds all it wrote
EndsAtEndOfStream ==
    \A p \in Pids : \A s \in Streams :
        rd[p][s].pc = "done" =>
            /\ os[p].status.kind # "running"
            /\ buf[p][s] = os[p].out[s]

Terminated(p) == p \in Pids /\ os[p].status.kind # "running"

ReadersDone(p) == p \in Pids /\ \A s \in Streams : rd[p][s].pc = "done"

\* C28: a kill does not touch the readers of the process, which keep
\* running after the record is removed; a reader ends only at the end of
\* its stream, and once the process has terminated both of its readers
\* eventually end, with all it wrote captured.
C28_ReadersEnd ==
    /\ []EndsAtEndOfStream
    /\ [][KillLeavesReaders]_vars
    /\ \A p \in 1..IoLaunches : Terminated(p) ~> ReadersDone(p)

\* a kill has terminated a running child and removed its record while a
\* reader of the child still has a byte to read
C28_Witness ==
    \E c \in Callers : \E s \in Streams :
        /\ KilledLive(c)
        /\ loc[c].id \notin DOMAIN processes
        /\ os[loc[c].child].status = Signaled
        /\ rd[loc[c].child][s].pc = "read"
        /\ Len(buf[loc[c].child][s]) < Len(os[loc[c].child].out[s])


\* ---- the counter
\* the launch calls made so far
LaunchCalls == MaxLaunches - quota

\* the callers that have read the counter and not yet advanced it
Allocating == {c \in Callers : pc[c] = "gen_inc"}

\* The counter is one more than the number of identifiers handed out, the
\* i-th identifier handed out carries the number i, every launch call has
\* been given one or is being given one, and a launch past the counter
\* holds an identifier that was handed out, whatever becomes of it.
CounterCounts ==
    /\ nextId = 1 + Len(issued)
    /\ \A i \in 1..Len(issued) : issued[i] = <<"game_process_", i>>
    /\ LaunchCalls = Len(issued) + Cardinality(Allocating)
    /\ \A c \in Callers :
          (loc[c].op = "launch" /\ pc[c] # "gen_inc") =>
              \E i \in 1..Len(issued) : issued[i] = loc[c].id
    /\ DOMAIN processes \subseteq {issued[i] : i \in 1..Len(issued)}

\* the counter moves only when a launch is given its identifier, and then
\* by one
CounterSteps ==
    /\ nextId' \in {nextId, nextId + 1}
    /\ (nextId' = nextId + 1) <=>
          \E c \in Callers : pc[c] = "gen_inc" /\ pc'[c] # "gen_inc"

\* C29: the counter starts at 1 and goes up by exactly 1 on every launch
\* call, the launches that fail later included; the identifiers carry the
\* numbers 1, 2, .. in the order they are handed out, so those of the
\* launches that succeed may leave gaps.
C29_CounterByOne == []CounterCounts /\ [][CounterSteps]_vars

\* the first launch has failed and returned, the second has its record in
\* the registry: the identifiers of the successful launches start at 2
C29_Witness ==
    /\ Len(issued) = 2
    /\ RegisteredAs(FormatId(1)) = {}
    /\ FormatId(2) \in DOMAIN processes
    /\ \A c \in Callers : loc[c].id # FormatId(1)


\* ---- a prepare that finds the natives in place
\* a call of prepare_natives_local that returned at once: no archive
\* looked for, none passed to the extractor, no file extracted
ReturnedAtOnce(e) ==
    /\ e.res = "Ok"
    /\ ~e.scanned
    /\ e.passed = <<>> /\ e.skipped = <<>>
    /\ e.wrote = 0

\* two calls of prepare_natives_local in a row, the first of which
\* succeeded and extracted a file
PreparedAfterExtraction ==
    {i \in 1..(Len(nat.log) - 1) :
        /\ nat.log[i].op = "prepare" /\ nat.log[i + 1].op = "prepare"
        /\ nat.log[i].res = "Ok" /\ nat.log[i].wrote > 0}

\* C30: a prepare called while a native-library file (a file with one of
\* the three extensions, in any case) sits directly in the natives root
\* returns success without scanning or extracting any archive; so a
\* prepare that follows a prepare which succeeded by extracting a file
\* writes no file.
C30_SatisfiedReturnsAtOnce ==
    /\ \A e \in Prepared :
          (nat.dirOk /\ HoldsNative(e.before)) => ReturnedAtOnce(e)
    /\ \A i \in PreparedAfterExtraction :
          /\ ReturnedAtOnce(nat.log[i + 1])
          /\ nat.log[i + 1].copied = 0
          /\ nat.log[i + 1].after = nat.log[i].after


\* ---- the check and what the extractor and the consolidator place
\* a call of prepare_natives_local that put a file into the root, by
\* extraction or by consolidation
PlacedNative(e) == e.wrote > 0 \/ e.copied > 0

\* C31: the check of the root accepts every file the extractor or the
\* consolidator places there, the three extensions in any case: a prepare
\* that consolidated a file into the root does not go on to the archives,
\* and a prepare that placed a file finds it with its check and does not
\* fail.
C31_CheckAcceptsPlaced ==
    \A e \in Prepared :
        (nat.dirOk /\ PlacedNative(e)) =>
            /\ HoldsNative(e.after)
            /\ CheckNativesExistInRoot(e.after)
            /\ e.res = "Ok"
            /\ (e.copied > 0 => ~e.scanned)


\* ---- an archive that fails
\* a call of prepare_natives_local went through all the candidate
\* archives: each was passed to the extractor or skipped, once, and those
\* that failed are among those passed
WentThroughAll(e) ==
    /\ Range(e.passed) \cup Range(e.skipped) = Candidates
    /\ Len(e.passed) + Len(e.skipped) = Cardinality(Candidates)
    /\ Range(e.failed) \subseteq Range(e.passed)

\* C32: an archive that cannot be opened, parsed or extracted does not end
\* the preparation: the candidates after it are processed all the same,
\* and a prepare in which an archive failed returns an error only if the
\* natives root ends with no native-library file (a file with one of the
\* three extensions, in any case).
C32_FailureDoesNotAbort ==
    \A e \in Prepared :
        (e.scanned /\ e.failed # <<>>) =>
            /\ WentThroughAll(e)
            /\ HoldsNative(e.after) => e.res = "Ok"
            /\ ~HoldsNative(e.after) => e.res # "Ok"


\* ---- consolidation and the files of the root
\* the finished calls of consolidate_natives
Consolidated == {e \in Range(nat.log) : e.op = "consolidate"}

\* the platform directories, by their place in the order of processing,
\* that exist and hold a native-library file named n
HoldersOf(n) ==
    {d \in 1..4 :
        LET dir == nat.sub[<<"windows", "linux", "macos", "osx">>[d]]
        IN  /\ dir.exists
            /\ \E i \in 1..Len(dir.files) :
                  /\ <<dir.files[i].base, dir.files[i].ext>> = n
                  /\ Lower(dir.files[i].ext) \in {"dll", "so", "dylib"}}

\* what the first of these directories holds under the name n
FirstHeld(n) ==
    LET d == CHOOSE x \in HoldersOf(n) : \A y \in HoldersOf(n) : x <= y
        files == nat.sub[<<"windows", "linux", "macos", "osx">>[d]].files
        i == CHOOSE k \in 1..Len(files) :
                 /\ <<files[k].base, files[k].ext>> = n
                 /\ \A m \in 1..(k - 1) : <<files[m].base, files[m].ext>> # n
    IN  files[i].data

\* C33: consolidation leaves every file of the natives root as it is, in
\* place and unchanged; it copies a file of a platform directory only
\* under a name the root does not have, so that of the files of one name
\* in several platform directories the first processed is the one copied,
\* and it counts the files it copied.
C33_NeverOverwrites ==
    \A e \in Consolidated :
        /\ \A n \in DOMAIN e.before :
              n \in DOMAIN e.after /\ e.after[n] = e.before[n]
        /\ \A n \in DOMAIN e.after \ DOMAIN e.before :
              HoldersOf(n) # {} /\ e.after[n] = FirstHeld(n)
        /\ Cardinality(DOMAIN e.after) = Cardinality(DOMAIN e.before) + e.copied

\* a consolidation of two platform directories that both hold a.so into a
\* root without it has copied the first, and the next consolidation has
\* left it there
C33_Witness ==
    /\ Len(nat.log) = 2
    /\ nat.log[1].op = "consolidate" /\ nat.log[2].op = "consolidate"
    /\ Cardinality(HoldersOf(<<"a", "so">>)) = 2
    /\ <<"a", "so">> \notin DOMAIN nat.log[1].before
    /\ nat.log[1].after[<<"a", "so">>] = FirstHeld(<<"a", "so">>)
    /\ nat.log[2].after[<<"a", "so">>] = FirstHeld(<<"a", "so">>)
    /\ nat.log[2].copied = 0

==========================================================================
